---- MODULE Spec2Model ----
(***************************************************************************)
(* A model of py-openrpc-generator: the JSON-Schema-to-type converters     *)
(* (Go and TypeScript), the Go naming helpers, the method / error /        *)
(* service processors of the two generators and the file writes of         *)
(* GolangGenerator.generate.                                               *)
(*                                                                         *)
(* Text is modelled as TLA+ strings; TLC evaluates Len, Head, Tail, SubSeq *)
(* and \o on strings, so every name, type expression and declaration is    *)
(* built character for character as the Python code builds it.             *)
(* A JSON object is a function from its keys to its values, so a missing   *)
(* key is a key outside DOMAIN.                                            *)
(***************************************************************************)
EXTENDS Integers, Sequences, FiniteSets, TLC

VARIABLES
    lang,              \* which converter / generator: "go" or "ts"
    schemas,           \* converter.schemas (components.schemas)
    generated_types,   \* converter.generated_types
    type_definitions,  \* converter.type_definitions
    raised,            \* TRUE once a call on the converter raised RecursionError
    last,              \* the last converter call: its arguments and its result
    calls,             \* number of calls made on the converter
    name_in,           \* argument given to go_field_name
    name_out,          \* results of the successive go_field_name(name_in) calls
    spec_methods,      \* spec.methods of the document a generation run is given
    pc,                \* how far generate() has come in building its context
    processed,         \* processed_methods / methods of generate()
    error_types,       \* error_types of generate()
    services,          \* services of GolangGenerator.generate()
    fs,                \* the output directory: file name -> content or Absent
    run,               \* per process: the generate() call it is in or has ended
    runs               \* number of generation runs started

vars == <<lang, schemas, generated_types, type_definitions, raised, last, calls,
          name_in, name_out, spec_methods, pc, processed, error_types, services,
          fs, run, runs>>

convVars == <<lang, schemas, generated_types, type_definitions, raised, last, calls>>
nameVars == <<name_in, name_out>>
genVars == <<spec_methods, pc, processed, error_types, services>>
regenVars == <<fs, run, runs>>

\* ------------------------------------------------------------------ bounds

\* number of calls made on one converter instance
MaxOps == 2
\* number of methods of a document
MaxMethods == 3
\* number of repeated go_field_name calls on one name
MaxCalls == 2
\* number of words of a generated camelCase / snake_case name
MaxWords == 2
\* number of generation runs against one output directory
MaxRuns == 3
\* number of values of an enum list
MaxEnum == 2

\* ------------------------------------------------------------- str helpers

LowerAlpha == "abcdefghijklmnopqrstuvwxyz"
UpperAlpha == "ABCDEFGHIJKLMNOPQRSTUVWXYZ"

RECURSIVE IndexIn(_, _, _)
\* position of the one-character string c in s at or after i, 0 when absent
IndexIn(c, s, i) ==
    IF i > Len(s) THEN 0
    ELSE IF SubSeq(s, i, i) = c THEN i
    ELSE IndexIn(c, s, i + 1)

\* "x" in s, for a one-character x
HasChar(s, c) == IndexIn(c, s, 1) > 0

\* the characters of a string, as a set
CharsOf(s) == {SubSeq(s, i, i) : i \in 1..Len(s)}

LowerSet == CharsOf(LowerAlpha)
UpperSet == CharsOf(UpperAlpha)

\* the upper-case letter of each lower-case letter, and the reverse
ToUpper == [c \in LowerSet |->
              LET i == IndexIn(c, LowerAlpha, 1) IN SubSeq(UpperAlpha, i, i)]
ToLower == [c \in UpperSet |->
              LET i == IndexIn(c, UpperAlpha, 1) IN SubSeq(LowerAlpha, i, i)]

\* str.isupper() of one character
IsUpper(c) == c \in UpperSet

UpperChar(c) == IF c \in LowerSet THEN ToUpper[c] ELSE c

LowerChar(c) == IF c \in UpperSet THEN ToLower[c] ELSE c

RECURSIVE StrUpper(_)
\* str.upper()
StrUpper(s) == IF s = "" THEN "" ELSE UpperChar(Head(s)) \o StrUpper(Tail(s))

RECURSIVE StrLower(_)
\* str.lower()
StrLower(s) == IF s = "" THEN "" ELSE LowerChar(Head(s)) \o StrLower(Tail(s))

\* str.capitalize(): first character upper-cased, the rest lower-cased
StrCapitalize(s) ==
    IF s = "" THEN "" ELSE UpperChar(Head(s)) \o StrLower(Tail(s))

\* str.startswith(p)
StartsWith(s, p) == Len(s) >= Len(p) /\ SubSeq(s, 1, Len(p)) = p

\* str.endswith(p)
EndsWith(s, p) ==
    Len(s) >= Len(p) /\ SubSeq(s, Len(s) - Len(p) + 1, Len(s)) = p

RECURSIVE JoinWith(_, _)
\* sep.join(parts)
JoinWith(parts, sep) ==
    IF Len(parts) = 0 THEN ""
    ELSE IF Len(parts) = 1 THEN parts[1]
    ELSE parts[1] \o sep \o JoinWith(Tail(parts), sep)

RECURSIVE SplitOn(_, _, _)
\* str.split(c) for a one-character separator; cur is the piece being read
SplitOn(s, c, cur) ==
    IF s = "" THEN <<cur>>
    ELSE IF Head(s) = c THEN <<cur>> \o SplitOn(Tail(s), c, "")
    ELSE SplitOn(Tail(s), c, cur \o Head(s))

\* the non-empty elements of a sequence of strings, in order
NonEmpty(parts) == SelectSeq(parts, LAMBDA w : w # "")

\* ------------------------------------------------------------ naming engine

\* the recognized acronyms of go_field_name
acronyms ==
    {"id", "url", "uri", "api", "http", "https", "json", "rpc",
     "sql", "db", "ip", "ui", "uuid", "html", "xml", "csv"}

RECURSIVE SplitCamelLoop(_, _, _)
\* the loop of _split_camel over the remaining characters s
SplitCamelLoop(s, words, current) ==
    IF s = "" THEN (IF current # "" THEN Append(words, current) ELSE words)
    ELSE IF IsUpper(Head(s)) /\ current # ""
         THEN SplitCamelLoop(Tail(s), Append(words, current), Head(s))
         ELSE SplitCamelLoop(Tail(s), words, current \o Head(s))

_split_camel(name) ==
    IF name = "" THEN <<>>
    ELSE IF HasChar(name, "_") THEN NonEmpty(SplitOn(name, "_", ""))
    ELSE SplitCamelLoop(name, <<>>, "")

\* a plausible slip: the acronym test made on the word as written
GoWordCaseSensitive(word) ==
    IF word \in acronyms THEN StrUpper(word)
    ELSE IF word # "" THEN UpperChar(Head(word)) \o StrLower(Tail(word))
    ELSE ""

\* one word of go_field_name's loop
GoWord(word) ==
    LET lower == StrLower(word)
    IN  IF lower \in acronyms THEN StrUpper(lower)
        ELSE IF word # "" THEN UpperChar(Head(word)) \o StrLower(Tail(word))
        ELSE ""

RECURSIVE GoWords(_)
GoWords(words) ==
    IF Len(words) = 0 THEN "" ELSE GoWord(Head(words)) \o GoWords(Tail(words))

go_field_name(json_name) ==
    LET words == _split_camel(json_name)
    IN  IF Len(words) > 0 THEN GoWords(words) ELSE StrCapitalize(json_name)

\* ------------------------------------------------------------ JSON values

\* dict.get(k, default); a key whose value is None is modelled as a missing key
Get(obj, k, default) == IF k \in DOMAIN obj THEN obj[k] ELSE default

\* the empty dict {}
EmptyObj == <<>>

\* bool(d) of a dict
Truthy(obj) == DOMAIN obj # {}

\* "properties" is an ordered dict: a sequence of [name, schema] in key order
PropNames(props) == {props[i].name : i \in 1..Len(props)}

\* additionalProperties is a bool or a dict: [bool |-> b] or [dict |-> schema]
IsDict(v) == "dict" \in DOMAIN v

\* an enum value: [kind |-> "str" | "num" | "null", text |-> str(value)]
AllKind(values, kinds) == \A i \in 1..Len(values) : values[i].kind \in kinds

\* ------------------------------------------------------- converter results

\* depth of nested convert_schema calls at which Python raises RecursionError
RecursionLimit == 8

\* a call's outcome: the returned type text, the registry after it, and
\* whether it raised RecursionError (then t is unused)
Res(t, gen, defs) == [t |-> t, gen |-> gen, defs |-> defs, err |-> FALSE]
Raise(gen, defs) == [t |-> "", gen |-> gen, defs |-> defs, err |-> TRUE]

PREFIX_SCHEMAS == "#/components/schemas/"

\* parts[-1] of a split
LastOf(parts) == parts[Len(parts)]

\* ref.split("/")[-1]
LastSegment(ref) == LastOf(SplitOn(ref, "/", ""))

\* the outcome r of a nested call handed on: the exception as it is, else the
\* type t with the registry r left
Named(t, r) == IF r.err THEN r ELSE Res(t, r.gen, r.defs)

\* the same with the nested call's type after a prefix: f"[]{item_type}"
Prefixed(prefix, r) == IF r.err THEN r ELSE Res(prefix \o r.t, r.gen, r.defs)

\* --------------------------------------------------------- Go converter

RECURSIVE GoConvertSchema(_, _, _, _, _, _)
RECURSIVE GoConvertTyped(_, _, _, _, _, _, _)
RECURSIVE GoConvertObject(_, _, _, _, _, _)
RECURSIVE GoBuildStructFields(_, _, _, _, _, _, _, _)
RECURSIVE GoBuildStructField(_, _, _, _, _, _, _, _, _)
RECURSIVE GoAppendField(_, _, _, _, _, _, _, _)
RECURSIVE GoFieldGoType(_, _, _, _, _, _, _)
RECURSIVE GoConvertArray(_, _, _, _, _)
RECURSIVE GoConvertAllOf(_, _, _, _, _, _, _, _)
RECURSIVE GoResolveRef(_, _, _, _, _)
RECURSIVE GoResolveName(_, _, _, _, _)

\* GolangConverter._convert_enum
GoConvertEnum(enum_values) ==
    IF AllKind(enum_values, {"str"}) THEN "string"
    ELSE IF AllKind(enum_values, {"num", "null"}) THEN "int64"
    ELSE "interface{}"

\* GolangConverter._convert_string
GoConvertString(schema) ==
    IF "enum" \in DOMAIN schema THEN GoConvertEnum(schema["enum"]) ELSE "string"

\* go_type.startswith(("*", "[]", "map[", "interface"))
GoNoPointer(go_type) ==
    \/ StartsWith(go_type, "*")
    \/ StartsWith(go_type, "[]")
    \/ StartsWith(go_type, "map[")
    \/ StartsWith(go_type, "interface")

\* the pointer wrap of optional scalars and structs
GoWrapOptional(go_type, is_required) ==
    IF ~is_required /\ ~GoNoPointer(go_type) THEN "*" \o go_type ELSE go_type

\* the Go raw-string quote of a struct tag; the TLA+ lexer accepts no
\* backquote in a string, so the character is written ^ in the model
BACKQUOTE == "^"

GoTag(json_name, is_required) ==
    BACKQUOTE \o "json:\"" \o json_name
        \o (IF is_required THEN "" ELSE ",omitempty") \o "\"" \o BACKQUOTE

\* GolangConverter.resolve_ref; s is converter.schemas, d the call depth
GoResolveRef(ref, s, gen, defs, d) ==
    IF StartsWith(ref, PREFIX_SCHEMAS)
    THEN GoResolveName(LastSegment(ref), s, gen, defs, d)
    ELSE Res("interface{}", gen, defs)

\* resolve_ref once type_name = ref.split("/")[-1] is known
GoResolveName(type_name, s, gen, defs, d) ==
    IF type_name \notin gen /\ type_name \in DOMAIN s
    THEN Named(type_name, GoConvertSchema(s[type_name], type_name, s, gen, defs, d))
    ELSE Res(type_name, gen, defs)

\* GolangConverter.convert_schema; type_name "" stands for None
GoConvertSchema(schema, type_name, s, gen, defs, d) ==
    IF d >= RecursionLimit THEN Raise(gen, defs)
    ELSE IF ~Truthy(schema) THEN Res("interface{}", gen, defs)
    ELSE IF "$ref" \in DOMAIN schema
         THEN GoResolveRef(schema["$ref"], s, gen, defs, d + 1)
    ELSE GoConvertTyped(Get(schema, "type", ""), schema, type_name, s, gen, defs, d)

\* convert_schema from schema_type = schema.get("type") on
GoConvertTyped(schema_type, schema, type_name, s, gen, defs, d) ==
    CASE schema_type = "object" ->
           GoConvertObject(schema, type_name, s, gen, defs, d + 1)
      [] schema_type = "array" ->
           GoConvertArray(schema, s, gen, defs, d + 1)
      [] schema_type = "string" -> Res(GoConvertString(schema), gen, defs)
      [] schema_type = "integer" -> Res("int64", gen, defs)
      [] schema_type = "number" -> Res("float64", gen, defs)
      [] schema_type = "boolean" -> Res("bool", gen, defs)
      [] schema_type = "null" -> Res("interface{}", gen, defs)
      [] OTHER ->
           IF "oneOf" \in DOMAIN schema THEN Res("interface{}", gen, defs)
           ELSE IF "anyOf" \in DOMAIN schema THEN Res("interface{}", gen, defs)
           ELSE IF "allOf" \in DOMAIN schema
                THEN GoConvertAllOf(schema["allOf"], type_name, <<>>, {},
                                    s, gen, defs, d + 1)
           ELSE IF "enum" \in DOMAIN schema
                THEN Res(GoConvertEnum(schema["enum"]), gen, defs)
           ELSE Res("interface{}", gen, defs)

\* the text of a struct declaration
GoStructDef(type_name, fields) ==
    "type " \o type_name \o " struct {\n" \o JoinWith(fields, "\n") \o "\n}"

\* a plausible slip: the registration made without the membership test
GoRegisterStructAlways(type_name, fields, gen, defs) ==
    IF type_name # ""
    THEN Res(type_name, gen \cup {type_name}, Append(defs, GoStructDef(type_name, fields)))
    ELSE Res("map[string]interface{}", gen, defs)

\* a plausible slip: the declaration put at the head of type_definitions
GoRegisterStructFirst(type_name, fields, gen, defs) ==
    IF type_name # "" /\ type_name \notin gen
    THEN Res(type_name, gen \cup {type_name}, <<GoStructDef(type_name, fields)>> \o defs)
    ELSE IF type_name # "" THEN Res(type_name, gen, defs)
    ELSE Res("map[string]interface{}", gen, defs)

\* the registration at the end of GolangConverter._convert_object
GoRegisterStruct(type_name, fields, gen, defs) ==
    IF type_name # "" /\ type_name \notin gen
    THEN Res(type_name, gen \cup {type_name}, Append(defs, GoStructDef(type_name, fields)))
    ELSE IF type_name # "" THEN Res(type_name, gen, defs)
    ELSE Res("map[string]interface{}", gen, defs)

\* _convert_object after fields = self._build_struct_fields(...), whose
\* outcome is f
GoRegisterFields(type_name, f) ==
    IF f.err THEN f ELSE GoRegisterStruct(type_name, f.t, f.gen, f.defs)

\* _convert_object without properties, additional being
\* schema.get("additionalProperties", True)
GoConvertMap(additional, s, gen, defs, d) ==
    IF IsDict(additional)
    THEN Prefixed("map[string]", GoConvertSchema(additional.dict, "", s, gen, defs, d))
    ELSE Res("map[string]interface{}", gen, defs)

\* GolangConverter._convert_object
GoConvertObject(schema, type_name, s, gen, defs, d) ==
    IF Len(Get(schema, "properties", <<>>)) = 0
    THEN GoConvertMap(Get(schema, "additionalProperties", [bool |-> TRUE]),
                      s, gen, defs, d)
    ELSE GoRegisterFields(type_name,
             GoBuildStructFields(schema["properties"], Get(schema, "required", {}),
                                 type_name, <<>>, s, gen, defs, d))

\* GolangConverter._build_struct_fields; fields are the lines built so far,
\* the result's t is the list of field lines
GoBuildStructFields(properties, required_fields, parent, fields, s, gen, defs, d) ==
    IF Len(properties) = 0 THEN Res(fields, gen, defs)
    ELSE GoBuildStructField(properties, required_fields, parent, fields,
                            go_field_name(properties[1].name), s, gen, defs, d)

\* one iteration of the loop of _build_struct_fields, go_name being
\* self.go_field_name(json_name)
GoBuildStructField(properties, required_fields, parent, fields, go_name, s, gen, defs, d) ==
    GoAppendField(
        GoFieldGoType(properties[1].schema, go_name, parent, s, gen, defs, d),
        properties, required_fields, parent, fields, go_name, s, d)

\* the line of one struct field
GoFieldLine(go_name, go_type, json_name, is_required) ==
    "\t" \o go_name \o " " \o GoWrapOptional(go_type, is_required) \o " "
         \o GoTag(json_name, is_required)

\* the rest of the iteration, r being the outcome of _field_go_type
GoAppendField(r, properties, required_fields, parent, fields, go_name, s, d) ==
    IF r.err THEN r
    ELSE GoBuildStructFields(
             Tail(properties), required_fields, parent,
             Append(fields, GoFieldLine(go_name, r.t, properties[1].name,
                                        properties[1].name \in required_fields)),
             s, r.gen, r.defs, d)

\* "Items" -> "Item": the singular form used for an array's item type
GoSingular(go_name) ==
    IF EndsWith(go_name, "s") /\ Len(go_name) > 1
    THEN SubSeq(go_name, 1, Len(go_name) - 1) ELSE go_name

\* schema.get("type") == "object" and schema.get("properties")
IsObjectWithProperties(schema) ==
    Get(schema, "type", "") = "object" /\ Len(Get(schema, "properties", <<>>)) > 0

\* the branch _field_go_type takes: "plain" (convert_schema without a name),
\* "object" (a nested object named parent + field) or "items" (an array of
\* objects, the item named parent + singular field)
GoFieldKind(prop_schema, parent) ==
    IF parent = "" THEN "plain"
    ELSE IF IsObjectWithProperties(prop_schema) THEN "object"
    ELSE IF /\ Get(prop_schema, "type", "") = "array"
            /\ IsObjectWithProperties(Get(prop_schema, "items", EmptyObj))
    THEN "items"
    ELSE "plain"

\* the schema, the type hint and the prefix of the branch's convert_schema call
GoFieldSchema(kind, prop_schema) ==
    IF kind = "items" THEN prop_schema["items"] ELSE prop_schema

GoFieldHint(kind, go_name, parent) ==
    IF kind = "object" THEN parent \o go_name
    ELSE IF kind = "items" THEN parent \o GoSingular(go_name)
    ELSE ""

GoFieldPrefix(kind) == IF kind = "items" THEN "[]" ELSE ""

\* _field_go_type once its branch is known
GoFieldOfKind(kind, prop_schema, go_name, parent, s, gen, defs, d) ==
    Prefixed(GoFieldPrefix(kind),
             GoConvertSchema(GoFieldSchema(kind, prop_schema),
                             GoFieldHint(kind, go_name, parent), s, gen, defs, d))

\* GolangConverter._field_go_type
GoFieldGoType(prop_schema, go_name, parent, s, gen, defs, d) ==
    GoFieldOfKind(GoFieldKind(prop_schema, parent), prop_schema, go_name, parent,
                  s, gen, defs, d)

\* GolangConverter._convert_array
GoConvertArray(schema, s, gen, defs, d) ==
    IF ~Truthy(Get(schema, "items", EmptyObj)) THEN Res("[]interface{}", gen, defs)
    ELSE Prefixed("[]", GoConvertSchema(schema["items"], "", s, gen, defs, d))

\* dict.update for one key: a known key keeps its place and takes the new
\* value, a new key goes to the end
DictSet(merged, p) ==
    IF p.name \in PropNames(merged)
    THEN [i \in 1..Len(merged) |-> IF merged[i].name = p.name THEN p ELSE merged[i]]
    ELSE Append(merged, p)

RECURSIVE DictUpdate(_, _)
\* dict.update on an ordered dict
DictUpdate(merged, props) ==
    IF Len(props) = 0 THEN merged
    ELSE DictUpdate(DictSet(merged, props[1]), Tail(props))

\* mock_schema of _convert_all_of
GoMockSchema(merged_properties, merged_required) ==
    ("type" :> "object") @@ ("properties" :> merged_properties)
        @@ ("required" :> merged_required)

\* GolangConverter._convert_all_of; merged_properties and merged_required are
\* the loop's accumulators
GoConvertAllOf(subs, type_name, merged_properties, merged_required, s, gen, defs, d) ==
    IF Len(subs) = 0
    THEN IF Len(merged_properties) = 0 THEN Res("interface{}", gen, defs)
         ELSE GoConvertObject(GoMockSchema(merged_properties, merged_required),
                              type_name, s, gen, defs, d)
    ELSE IF "$ref" \in DOMAIN subs[1]
    THEN Named("interface{}", GoResolveRef(subs[1]["$ref"], s, gen, defs, d))
    ELSE GoConvertAllOf(Tail(subs), type_name,
             DictUpdate(merged_properties, Get(subs[1], "properties", <<>>)),
             merged_required \cup Get(subs[1], "required", {}),
             s, gen, defs, d)

\* ---------------------------------------------------- TypeScript converter

Digits == "0123456789"

AlnumSet == LowerSet \cup UpperSet \cup CharsOf(Digits)

RECURSIVE AllAlnum(_)
AllAlnum(str) == str = "" \/ (Head(str) \in AlnumSet /\ AllAlnum(Tail(str)))

\* str.isalnum()
IsAlnum(str) == str # "" /\ AllAlnum(str)

\* str.replace(c, "") for a one-character c
Remove(str, c) == JoinWith(SplitOn(str, c, ""), "")

\* TypeScriptConverter._needs_quotes
_needs_quotes(prop_name) ==
    \/ ~IsAlnum(Remove(prop_name, "_"))
    \/ HasChar(Digits, Head(prop_name))

RECURSIVE TsConvertSchema(_, _, _, _, _, _)
RECURSIVE TsConvertTyped(_, _, _, _, _, _, _)
RECURSIVE TsConvertObject(_, _, _, _, _, _)
RECURSIVE TsObjectFields(_, _, _, _, _, _, _)
RECURSIVE TsAppendField(_, _, _, _, _, _)
RECURSIVE TsConvertArray(_, _, _, _, _)
RECURSIVE TsConvertEach(_, _, _, _, _, _)
RECURSIVE TsAppendType(_, _, _, _, _)
RECURSIVE TsResolveRef(_, _, _, _, _)
RECURSIVE TsResolveName(_, _, _, _, _)

\* one value of TypeScriptConverter._convert_enum's loop
TsEnumValue(value) ==
    IF value.kind = "str" THEN "\"" \o value.text \o "\""
    ELSE IF value.kind = "null" THEN "null"
    ELSE value.text

\* TypeScriptConverter._convert_enum
TsConvertEnum(enum_values) ==
    JoinWith([i \in 1..Len(enum_values) |-> TsEnumValue(enum_values[i])], " | ")

\* TypeScriptConverter._convert_string
TsConvertString(schema) ==
    IF "enum" \in DOMAIN schema THEN TsConvertEnum(schema["enum"]) ELSE "string"

\* TypeScriptConverter._convert_number
TsConvertNumber(schema) ==
    IF "enum" \in DOMAIN schema THEN TsConvertEnum(schema["enum"]) ELSE "number"

\* TypeScriptConverter.resolve_ref
TsResolveRef(ref, s, gen, defs, d) ==
    IF StartsWith(ref, PREFIX_SCHEMAS)
    THEN TsResolveName(LastSegment(ref), s, gen, defs, d)
    ELSE Res("any", gen, defs)

\* resolve_ref once type_name = ref.split("/")[-1] is known
TsResolveName(type_name, s, gen, defs, d) ==
    IF type_name \notin gen /\ type_name \in DOMAIN s
    THEN Named(type_name, TsConvertSchema(s[type_name], type_name, s, gen, defs, d))
    ELSE Res(type_name, gen, defs)

\* [self.convert_schema(s) for s in schemas]; the result's t is the list of types
TsConvertEach(subs, types, s, gen, defs, d) ==
    IF Len(subs) = 0 THEN Res(types, gen, defs)
    ELSE TsAppendType(TsConvertSchema(subs[1], "", s, gen, defs, d), subs, types, s, d)

\* the rest of the comprehension, r being the outcome for its first schema
TsAppendType(r, subs, types, s, d) ==
    IF r.err THEN r
    ELSE TsConvertEach(Tail(subs), Append(types, r.t), s, r.gen, r.defs, d)

\* sep.join(types), r being the outcome of the comprehension
TsJoined(sep, r) == IF r.err THEN r ELSE Res(JoinWith(r.t, sep), r.gen, r.defs)

\* TypeScriptConverter._convert_one_of, _convert_any_of (" | ") and
\* _convert_all_of (" & ")
TsConvertJoined(subs, sep, s, gen, defs, d) ==
    TsJoined(sep, TsConvertEach(subs, <<>>, s, gen, defs, d))

\* the composite key convert_schema acts on: oneOf, then anyOf, then allOf
TsCompositeKey(schema) ==
    IF "oneOf" \in DOMAIN schema THEN "oneOf"
    ELSE IF "anyOf" \in DOMAIN schema THEN "anyOf"
    ELSE IF "allOf" \in DOMAIN schema THEN "allOf"
    ELSE ""

TsSeparator(key) == IF key = "allOf" THEN " & " ELSE " | "

\* TypeScriptConverter.convert_schema; type_name "" stands for None
TsConvertSchema(schema, type_name, s, gen, defs, d) ==
    IF d >= RecursionLimit THEN Raise(gen, defs)
    ELSE IF ~Truthy(schema) THEN Res("any", gen, defs)
    ELSE IF "$ref" \in DOMAIN schema
         THEN TsResolveRef(schema["$ref"], s, gen, defs, d + 1)
    ELSE TsConvertTyped(Get(schema, "type", ""), schema, type_name, s, gen, defs, d)

\* convert_schema from schema_type = schema.get("type") on
TsConvertTyped(schema_type, schema, type_name, s, gen, defs, d) ==
    CASE schema_type = "object" ->
           TsConvertObject(schema, type_name, s, gen, defs, d + 1)
      [] schema_type = "array" ->
           TsConvertArray(schema, s, gen, defs, d + 1)
      [] schema_type = "string" -> Res(TsConvertString(schema), gen, defs)
      [] schema_type \in {"number", "integer"} ->
           Res(TsConvertNumber(schema), gen, defs)
      [] schema_type = "boolean" -> Res("boolean", gen, defs)
      [] schema_type = "null" -> Res("null", gen, defs)
      [] OTHER ->
           IF TsCompositeKey(schema) # ""
           THEN TsConvertJoined(schema[TsCompositeKey(schema)],
                                TsSeparator(TsCompositeKey(schema)), s, gen, defs, d + 1)
           ELSE IF "enum" \in DOMAIN schema
           THEN Res(TsConvertEnum(schema["enum"]), gen, defs)
           ELSE Res("any", gen, defs)

\* "{\n" + "\n".join(fields) + "\n}"
TsBraces(fields) == "{\n" \o JoinWith(fields, "\n") \o "\n}"

\* the end of TypeScriptConverter._convert_object: a named interface, or the
\* inline type
TsRegisterInterface(type_name, fields, gen, defs) ==
    IF type_name # "" /\ type_name \notin gen
    THEN Res(type_name, gen \cup {type_name},
             Append(defs, "export interface " \o type_name \o " " \o TsBraces(fields)))
    ELSE Res(TsBraces(fields), gen, defs)

\* _convert_object after its property loop, whose outcome is f
TsRegisterFields(type_name, f) ==
    IF f.err THEN f ELSE TsRegisterInterface(type_name, f.t, f.gen, f.defs)

\* f"Record<string, {value_type}>", r being the outcome for the value schema
TsRecordOf(r) == IF r.err THEN r ELSE Res("Record<string, " \o r.t \o ">", r.gen, r.defs)

\* _convert_object without properties, additional being
\* schema.get("additionalProperties", True)
TsConvertRecord(additional, s, gen, defs, d) ==
    IF IsDict(additional)
    THEN TsRecordOf(TsConvertSchema(additional.dict, "", s, gen, defs, d))
    ELSE IF additional.bool THEN Res("Record<string, any>", gen, defs)
    ELSE Res("Record<string, never>", gen, defs)

\* TypeScriptConverter._convert_object
TsConvertObject(schema, type_name, s, gen, defs, d) ==
    IF Len(Get(schema, "properties", <<>>)) = 0
    THEN TsConvertRecord(Get(schema, "additionalProperties", [bool |-> TRUE]),
                         s, gen, defs, d)
    ELSE TsRegisterFields(type_name,
             TsObjectFields(schema["properties"], Get(schema, "required", {}), <<>>,
                            s, gen, defs, d))

\* the line of one property
TsFieldLine(prop_name, is_required, prop_type) ==
    "  " \o (IF _needs_quotes(prop_name) THEN "\"" \o prop_name \o "\"" ELSE prop_name)
         \o (IF is_required THEN "" ELSE "?") \o ": " \o prop_type \o ";"

\* the property loop of TypeScriptConverter._convert_object
TsObjectFields(properties, required, fields, s, gen, defs, d) ==
    IF Len(properties) = 0 THEN Res(fields, gen, defs)
    ELSE TsAppendField(TsConvertSchema(properties[1].schema, "", s, gen, defs, d),
                       properties, required, fields, s, d)

\* the rest of one iteration, r being the outcome for the property's schema
TsAppendField(r, properties, required, fields, s, d) ==
    IF r.err THEN r
    ELSE TsObjectFields(
             Tail(properties), required,
             Append(fields, TsFieldLine(properties[1].name,
                                        properties[1].name \in required, r.t)),
             s, r.gen, r.defs, d)

\* the array type of an item type: Array<T> for a union or intersection
TsArrayType(item_type) ==
    IF HasChar(item_type, "|") \/ HasChar(item_type, "&")
    THEN "Array<" \o item_type \o ">" ELSE item_type \o "[]"

\* the array of the item type, r being the outcome for the items schema
TsArrayOf(r) == IF r.err THEN r ELSE Res(TsArrayType(r.t), r.gen, r.defs)

\* TypeScriptConverter._convert_array
TsConvertArray(schema, s, gen, defs, d) ==
    IF ~Truthy(Get(schema, "items", EmptyObj)) THEN Res("any[]", gen, defs)
    ELSE TsArrayOf(TsConvertSchema(schema["items"], "", s, gen, defs, d))

\* ----------------------------------------------- the two converters as one

ConvertSchema(l, schema, type_name, s, gen, defs) ==
    IF l = "go" THEN GoConvertSchema(schema, type_name, s, gen, defs, 0)
    ELSE TsConvertSchema(schema, type_name, s, gen, defs, 0)

ResolveRef(l, ref, s, gen, defs) ==
    IF l = "go" THEN GoResolveRef(ref, s, gen, defs, 0)
    ELSE TsResolveRef(ref, s, gen, defs, 0)

\* the opaque type of each target
Opaque(l) == IF l = "go" THEN "interface{}" ELSE "any"

\* ------------------------------------------------------------- spec model

\* components.contentDescriptors and components.errors of the loaded document
ContentDescriptors ==
    ("UserId" :> (("name" :> "userId") @@ ("required" :> TRUE)
                  @@ ("schema" :> ("type" :> "string"))))

ErrorComponents ==
    ("NotFound" :> (("code" :> 404) @@ ("message" :> "Not found")))

PREFIX_DESCRIPTORS == "#/components/contentDescriptors/"
PREFIX_ERRORS == "#/components/errors/"

\* OpenRPCSpec._resolve_content_descriptor_ref
_resolve_content_descriptor_ref(ref) ==
    IF StartsWith(ref, PREFIX_DESCRIPTORS) /\ LastSegment(ref) \in DOMAIN ContentDescriptors
    THEN ContentDescriptors[LastSegment(ref)] ELSE EmptyObj

\* OpenRPCSpec._resolve_error_ref
_resolve_error_ref(ref) ==
    IF StartsWith(ref, PREFIX_ERRORS) /\ LastSegment(ref) \in DOMAIN ErrorComponents
    THEN ErrorComponents[LastSegment(ref)] ELSE EmptyObj

\* one parameter of OpenRPCSpec._parse_params (summary, description and
\* deprecated are carried through unread and are left out)
ParseParam(param) ==
    LET p == IF "$ref" \in DOMAIN param
             THEN _resolve_content_descriptor_ref(param["$ref"]) ELSE param
    IN  [name |-> Get(p, "name", ""),
         required |-> Get(p, "required", FALSE),
         schema |-> Get(p, "schema", EmptyObj)]

_parse_params(params) == [i \in 1..Len(params) |-> ParseParam(params[i])]

\* one error of OpenRPCSpec._parse_errors; a code of None is a missing key
ParseError(error) ==
    LET e == IF "$ref" \in DOMAIN error THEN _resolve_error_ref(error["$ref"]) ELSE error
    IN  ("message" :> Get(e, "message", ""))
        @@ (IF "code" \in DOMAIN e THEN ("code" :> e["code"]) ELSE EmptyObj)

_parse_errors(errors) == [i \in 1..Len(errors) |-> ParseError(errors[i])]

\* OpenRPCSpec._parse_result on a method that has a result key: None (here
\* EmptyObj under no key) for a falsy result, else the parsed descriptor
ParsedResult(result) ==
    LET r == IF "$ref" \in DOMAIN result
             THEN _resolve_content_descriptor_ref(result["$ref"]) ELSE result
    IN  ("name" :> Get(r, "name", "result")) @@ ("schema" :> Get(r, "schema", EmptyObj))

\* a plausible slip: a descriptor built for a method without a result
ParseMethodAlwaysResult(method) ==
    ("name" :> Get(method, "name", ""))
    @@ ("params" :> _parse_params(Get(method, "params", <<>>)))
    @@ ("errors" :> _parse_errors(Get(method, "errors", <<>>)))
    @@ ("param_structure" :> Get(method, "paramStructure", "either"))
    @@ ("result" :> ParsedResult(Get(method, "result", EmptyObj)))

\* one method of OpenRPCSpec.get_method_list: "result" is a key of the
\* outcome only when _parse_result returns a descriptor (None is a missing key)
ParseMethod(method) ==
    ("name" :> Get(method, "name", ""))
    @@ ("params" :> _parse_params(Get(method, "params", <<>>)))
    @@ ("errors" :> _parse_errors(Get(method, "errors", <<>>)))
    @@ ("param_structure" :> Get(method, "paramStructure", "either"))
    @@ (IF Truthy(Get(method, "result", EmptyObj))
        THEN ("result" :> ParsedResult(method["result"])) ELSE EmptyObj)

get_method_list(methods) == [i \in 1..Len(methods) |-> ParseMethod(methods[i])]

\* ------------------------------------------------------ Go naming helpers

\* position of the first "." of a name, 0 when it has none
FirstDot(name) == IndexIn(".", name, 1)

\* GolangGenerator._extract_namespace
_extract_namespace(method_name) ==
    LET i == FirstDot(method_name)
    IN  IF i > 0
        THEN <<SubSeq(method_name, 1, i - 1), SubSeq(method_name, i + 1, Len(method_name))>>
        ELSE <<"default", method_name>>

\* GolangGenerator._namespace_to_service
_namespace_to_service(namespace) == StrCapitalize(namespace) \o "Service"

\* GolangGenerator._capitalize_first and TypeScriptGenerator._capitalize
_capitalize_first(str) ==
    IF str = "" THEN str ELSE UpperChar(Head(str)) \o Tail(str)

\* GolangGenerator._suffix_to_go_method
_suffix_to_go_method(suffix) ==
    IF suffix = "" THEN "Handle"
    ELSE IF HasChar(suffix, ".")
    THEN LET parts == SplitOn(suffix, ".", "")
         IN  JoinWith([i \in 1..Len(parts) |-> _capitalize_first(parts[i])], "")
    ELSE _capitalize_first(suffix)

\* -------------------------------------------------- Go method processing

RECURSIVE GoBuildArgsFields(_, _, _, _, _, _, _)
RECURSIVE GoBuildArgsField(_, _, _, _, _, _, _, _)
RECURSIVE GoAppendArg(_, _, _, _, _, _, _)

\* the field record of one parameter
GoArgField(param, go_name, go_type) ==
    [json_name |-> param.name,
     go_name |-> go_name,
     go_type |-> GoWrapOptional(go_type, param.required),
     required |-> param.required,
     tag |-> GoTag(param.name, param.required)]

\* GolangGenerator._build_args_fields (is_positional is not read by the code);
\* the result's t is the list of field records
GoBuildArgsFields(params, args_type_name, fields, s, gen, defs, d) ==
    IF Len(params) = 0 THEN Res(fields, gen, defs)
    ELSE GoBuildArgsField(params, args_type_name, fields,
                          go_field_name(params[1].name), s, gen, defs, d)

\* one iteration of its loop, go_name being converter.go_field_name(json_name)
GoBuildArgsField(params, args_type_name, fields, go_name, s, gen, defs, d) ==
    GoAppendArg(GoFieldGoType(params[1].schema, go_name, args_type_name, s, gen, defs, d),
                params, args_type_name, fields, go_name, s, d)

\* the rest of the iteration, r being the outcome of converter._field_go_type
GoAppendArg(r, params, args_type_name, fields, go_name, s, d) ==
    IF r.err THEN r
    ELSE GoBuildArgsFields(Tail(params), args_type_name,
                           Append(fields, GoArgField(params[1], go_name, r.t)),
                           s, r.gen, r.defs, d)

\* the named result struct the Go processor registers itself for an array
\* ("Items") or scalar ("Result") result
GoRegisterResultStruct(result_struct_name, field, json, inner, gen, defs) ==
    IF result_struct_name \notin gen
    THEN Res(result_struct_name, gen \cup {result_struct_name},
             Append(defs, "type " \o result_struct_name \o " struct {\n"
                          \o "\t" \o field \o " " \o inner \o " " \o BACKQUOTE
                          \o "json:\"" \o json \o "\"" \o BACKQUOTE \o "\n"
                          \o "}"))
    ELSE Res(result_struct_name, gen, defs)

\* result.get("schema", {}) of a processed method, {} when it has no result
ResultSchema(method) ==
    IF "result" \in DOMAIN method THEN Get(method["result"], "schema", EmptyObj)
    ELSE EmptyObj

\* the branch _process_methods takes for the reply: "none" (no result or no
\* schema), "ref", "object", "array" or "scalar"
GoReplyKind(method) ==
    IF ~Truthy(ResultSchema(method)) THEN "none"
    ELSE IF "$ref" \in DOMAIN ResultSchema(method) THEN "ref"
    ELSE IF Get(ResultSchema(method), "type", "") = "object" THEN "object"
    ELSE IF Get(ResultSchema(method), "type", "") = "array" THEN "array"
    ELSE "scalar"

\* the array and scalar branches after converter.convert_schema(result_schema),
\* whose outcome is r; the object branch returns r as it is
GoWrapResult(kind, result_struct_name, r) ==
    IF r.err \/ kind = "object" THEN r
    ELSE GoRegisterResultStruct(result_struct_name,
                                IF kind = "array" THEN "Items" ELSE "Result",
                                IF kind = "array" THEN "items" ELSE "result",
                                r.t, r.gen, r.defs)

\* the reply once the branch is known
GoReplyOfKind(kind, result_schema, result_struct_name, s, gen, defs) ==
    IF kind = "none" THEN Res("", gen, defs)
    ELSE IF kind = "ref" THEN GoResolveRef(result_schema["$ref"], s, gen, defs, 0)
    ELSE GoWrapResult(kind, result_struct_name,
             GoConvertSchema(result_schema,
                             IF kind = "object" THEN result_struct_name ELSE "",
                             s, gen, defs, 0))

\* the reply of one method in GolangGenerator._process_methods: the result's t
\* is reply_inline_type, "" for None
GoReply(method, result_struct_name, s, gen, defs) ==
    GoReplyOfKind(GoReplyKind(method), ResultSchema(method), result_struct_name,
                  s, gen, defs)

\* param_structure == "by-position"
IsPositional(method) == Get(method, "param_structure", "either") = "by-position"

\* the dict appended to processed, r being the outcome of the reply branch
\* (reply_inline_type is a key only when not None)
GoProcessed(method, namespace, service_name, go_method, args_fields, r) ==
    IF r.err THEN r
    ELSE Res(method
             @@ ("namespace" :> namespace)
             @@ ("service_name" :> service_name)
             @@ ("go_method_name" :> go_method)
             @@ ("args_type" :> service_name \o go_method \o "Args")
             @@ ("reply_type" :> service_name \o go_method \o "Reply")
             @@ (IF r.t # "" THEN ("reply_inline_type" :> r.t) ELSE EmptyObj)
             @@ ("reply_is_alias" :> (r.t # ""))
             @@ ("args_fields" :> args_fields)
             @@ ("has_args" :> (Len(Get(method, "params", <<>>)) > 0))
             @@ ("is_notification" :> ("result" \notin DOMAIN method))
             @@ ("is_positional" :> IsPositional(method)),
             r.gen, r.defs)

\* the iteration after args_fields = self._build_args_fields(...), whose
\* outcome is a
GoProcessReply(method, namespace, service_name, go_method, a, s) ==
    IF a.err THEN a
    ELSE GoProcessed(method, namespace, service_name, go_method, a.t,
                     GoReply(method, service_name \o go_method \o "Result",
                             s, a.gen, a.defs))

\* the iteration once service_name and go_method are known
GoProcessNamed(method, namespace, service_name, go_method, s, gen, defs) ==
    GoProcessReply(method, namespace, service_name, go_method,
                   GoBuildArgsFields(Get(method, "params", <<>>),
                                     service_name \o go_method \o "Args",
                                     <<>>, s, gen, defs, 0),
                   s)

\* the iteration once namespace, suffix = self._extract_namespace(method_name)
GoProcessSplit(method, ns, s, gen, defs) ==
    GoProcessNamed(method, ns[1], _namespace_to_service(ns[1]),
                   _suffix_to_go_method(ns[2]), s, gen, defs)

\* one iteration of the loop of GolangGenerator._process_methods: the result's
\* t is the processed method
GoProcessMethod(method, s, gen, defs) ==
    GoProcessSplit(method, _extract_namespace(method["name"]), s, gen, defs)

\* ------------------------------------------ TypeScript method processing

\* str.replace(a, b) for a one-character a
ReplaceChar(str, a, b) == JoinWith(SplitOn(str, a, ""), b)

\* a plausible slip: the slot of an optional parameter left unmarked
TsSlotUnmarked(param, param_type) == param_type

\* the slot of one parameter in the by-position tuple
TsSlot(param, param_type) ==
    IF param.required THEN param_type ELSE param_type \o " | undefined"

RECURSIVE TsTupleTypes(_, _, _, _, _)
RECURSIVE TsAppendSlot(_, _, _, _)

\* the by-position loop of TypeScriptGenerator._process_methods: the result's
\* t is param_types
TsTupleTypes(params_list, param_types, s, gen, defs) ==
    IF Len(params_list) = 0 THEN Res(param_types, gen, defs)
    ELSE TsAppendSlot(TsConvertSchema(params_list[1].schema, "", s, gen, defs, 0),
                      params_list, param_types, s)

\* the rest of one iteration, r being the outcome for the parameter's schema
TsAppendSlot(r, params_list, param_types, s) ==
    IF r.err THEN r
    ELSE TsTupleTypes(Tail(params_list),
                      Append(param_types, TsSlot(params_list[1], r.t)),
                      s, r.gen, r.defs)

\* f"[{', '.join(param_types)}]", r being the outcome of the loop
TsTuple(r) == IF r.err THEN r ELSE Res("[" \o JoinWith(r.t, ", ") \o "]", r.gen, r.defs)

\* params_schema of the by-name / either branch
TsParamsSchema(params_list) ==
    ("type" :> "object")
    @@ ("properties" :>
          DictUpdate(<<>>, [i \in 1..Len(params_list) |->
                              [name |-> params_list[i].name,
                               schema |-> params_list[i].schema]]))
    @@ ("required" :> {params_list[i].name : i \in
                          {j \in 1..Len(params_list) : params_list[j].required}})

\* the parameters of one method in TypeScriptGenerator._process_methods: the
\* result's t is params_type, "" for None
TsParams(params_list, safe_name, is_positional, s, gen, defs) ==
    IF Len(params_list) = 0 THEN Res("", gen, defs)
    ELSE IF is_positional
    THEN TsTuple(TsTupleTypes(params_list, <<>>, s, gen, defs))
    ELSE TsConvertSchema(TsParamsSchema(params_list),
                         _capitalize_first(safe_name) \o "Params", s, gen, defs, 0)

\* the result of one method in TypeScriptGenerator._process_methods
TsResult(method, safe_name, s, gen, defs) ==
    IF "result" \notin DOMAIN method THEN Res("void", gen, defs)
    ELSE IF ~Truthy(ResultSchema(method)) THEN Res("any", gen, defs)
    ELSE TsConvertSchema(ResultSchema(method),
                         _capitalize_first(safe_name) \o "Result", s, gen, defs, 0)

\* the dict appended to processed_methods, r being the outcome for the result
\* (params_type and params_interface_name are keys only when not None)
TsProcessed(method, safe_name, params_type, r) ==
    IF r.err THEN r
    ELSE Res(method
             @@ ("safe_name" :> safe_name)
             @@ (IF params_type # "" THEN ("params_type" :> params_type) ELSE EmptyObj)
             @@ (IF Len(Get(method, "params", <<>>)) > 0 /\ ~IsPositional(method)
                 THEN ("params_interface_name" :>
                         _capitalize_first(safe_name) \o "Params")
                 ELSE EmptyObj)
             @@ ("result_type" :> r.t)
             @@ ("has_params" :> (Len(Get(method, "params", <<>>)) > 0))
             @@ ("is_positional" :> IsPositional(method))
             @@ ("is_notification" :> ("result" \notin DOMAIN method)),
             r.gen, r.defs)

\* the iteration after the parameters, whose outcome is p
TsProcessResult(method, safe_name, p, s) ==
    IF p.err THEN p
    ELSE TsProcessed(method, safe_name, p.t,
                     TsResult(method, safe_name, s, p.gen, p.defs))

\* the iteration once safe_name is known
TsProcessNamed(method, safe_name, s, gen, defs) ==
    TsProcessResult(method, safe_name,
                    TsParams(Get(method, "params", <<>>), safe_name,
                             IsPositional(method), s, gen, defs),
                    s)

\* one iteration of the loop of TypeScriptGenerator._process_methods
TsProcessMethod(method, s, gen, defs) ==
    TsProcessNamed(method, ReplaceChar(method["name"], ".", "_"), s, gen, defs)

\* -------------------------------------------------- the two processors

ProcessMethod(l, method, s, gen, defs) ==
    IF l = "go" THEN GoProcessMethod(method, s, gen, defs)
    ELSE TsProcessMethod(method, s, gen, defs)

RECURSIVE ProcessMethodsLoop(_, _, _, _, _, _)
RECURSIVE ProcessNext(_, _, _, _, _)

\* _process_methods of either generator: the result's t is the processed list
ProcessMethodsLoop(l, methods, done, s, gen, defs) ==
    IF Len(methods) = 0 THEN Res(done, gen, defs)
    ELSE ProcessNext(ProcessMethod(l, methods[1], s, gen, defs), l, methods, done, s)

\* the rest of the loop, r being the outcome for its first method
ProcessNext(r, l, methods, done, s) ==
    IF r.err THEN r
    ELSE ProcessMethodsLoop(l, Tail(methods), Append(done, r.t), s, r.gen, r.defs)

_process_methods(l, methods, s, gen, defs) ==
    ProcessMethodsLoop(l, methods, <<>>, s, gen, defs)

\* ------------------------------------------------------- error catalog

RECURSIVE DigitsOf(_)
\* the decimal digits of a natural number
DigitsOf(n) ==
    IF n < 10 THEN SubSeq(Digits, n + 1, n + 1)
    ELSE DigitsOf(n \div 10) \o SubSeq(Digits, (n % 10) + 1, (n % 10) + 1)

\* str(code) of an integer, as the f-strings of the fallback names format it
IntToStr(n) == IF n < 0 THEN "-" \o DigitsOf(-n) ELSE DigitsOf(n)

RECURSIVE AlnumOrSpace(_)
\* "".join(c if c.isalnum() else " " for c in message)
AlnumOrSpace(message) ==
    IF message = "" THEN ""
    ELSE (IF Head(message) \in AlnumSet THEN Head(message) ELSE " ")
         \o AlnumOrSpace(Tail(message))

\* the name derived from the message, "" when the message gives none
MessageName(message) ==
    LET words == NonEmpty(SplitOn(AlnumOrSpace(message), " ", ""))
    IN  JoinWith([i \in 1..Len(words) |-> StrCapitalize(words[i])], "")

\* GolangGenerator._error_to_struct_name
_error_to_struct_name(code, message) ==
    IF message # "" /\ MessageName(message) # "" THEN MessageName(message) \o "Error"
    ELSE "RPCError" \o IntToStr(code)

\* TypeScriptGenerator._error_code_to_class_name
_error_code_to_class_name(code, message) ==
    IF message # "" /\ MessageName(message) # "" THEN MessageName(message) \o "Error"
    ELSE "Error" \o IntToStr(code)

\* the codes that are keys of errors_map
MapCodes(errors_map) == {errors_map[i].code : i \in 1..Len(errors_map)}

\* the entry errors_map[code] = {...} of either generator
ErrorEntry(l, code, message) ==
    IF l = "go"
    THEN [code |-> code, message |-> message,
          struct_name |-> _error_to_struct_name(code, message)]
    ELSE [code |-> code, message |-> message,
          class_name |-> _error_code_to_class_name(code, message)]

\* a plausible slip: a later error with a known code replaces the entry
AddErrorLastWins(l, errors_map, error) ==
    IF "code" \notin DOMAIN error THEN errors_map
    ELSE IF error["code"] \in MapCodes(errors_map)
    THEN [i \in 1..Len(errors_map) |->
            IF errors_map[i].code = error["code"]
            THEN ErrorEntry(l, error["code"], Get(error, "message", ""))
            ELSE errors_map[i]]
    ELSE Append(errors_map, ErrorEntry(l, error["code"], Get(error, "message", "")))

\* the body of the inner loop of _process_errors, for one error
AddError(l, errors_map, error) ==
    IF "code" \in DOMAIN error /\ error["code"] \notin MapCodes(errors_map)
    THEN Append(errors_map, ErrorEntry(l, error["code"], Get(error, "message", "")))
    ELSE errors_map

RECURSIVE AddErrors(_, _, _)
AddErrors(l, errors_map, errors) ==
    IF Len(errors) = 0 THEN errors_map
    ELSE AddErrors(l, AddError(l, errors_map, errors[1]), Tail(errors))

RECURSIVE ErrorsLoop(_, _, _)
ErrorsLoop(l, errors_map, processed_methods) ==
    IF Len(processed_methods) = 0 THEN errors_map
    ELSE ErrorsLoop(l, AddErrors(l, errors_map, Get(processed_methods[1], "errors", <<>>)),
                    Tail(processed_methods))

\* _process_errors of either generator: list(errors_map.values())
_process_errors(l, processed_methods) == ErrorsLoop(l, <<>>, processed_methods)

\* --------------------------------------------------------- Go services

\* the printable ASCII characters in code point order (the backquote, which
\* a TLA+ string cannot hold, is left out)
OrdChars ==
    " !\"#$%&'()*+,-./0123456789:;<=>?@ABCDEFGHIJKLMNOPQRSTUVWXYZ[\\]^_abcdefghijklmnopqrstuvwxyz{|}~"

CharOrd == [c \in CharsOf(OrdChars) |-> IndexIn(c, OrdChars, 1)]

RECURSIVE StrLess(_, _)
\* a < b of two Python strings
StrLess(a, b) ==
    IF b = "" THEN FALSE
    ELSE IF a = "" THEN TRUE
    ELSE IF Head(a) = Head(b) THEN StrLess(Tail(a), Tail(b))
    ELSE CharOrd[Head(a)] < CharOrd[Head(b)]

RECURSIVE ServiceMap(_, _)
\* the first loop of _process_services: service_map in insertion order
ServiceMap(service_map, processed_methods) ==
    IF Len(processed_methods) = 0 THEN service_map
    ELSE LET method == processed_methods[1]
             ns == method["namespace"]
             known == {i \in 1..Len(service_map) : service_map[i].namespace = ns}
             upd == IF known = {}
                    THEN Append(service_map,
                                [name |-> method["service_name"], namespace |-> ns,
                                 methods |-> <<method>>])
                    ELSE [i \in 1..Len(service_map) |->
                            IF i \in known
                            THEN [service_map[i] EXCEPT !.methods = Append(@, method)]
                            ELSE service_map[i]]
         IN  ServiceMap(upd, Tail(processed_methods))

RECURSIVE InsertByName(_, _)
\* svc put after the last element of the sorted list whose name is not greater
InsertByName(sorted, svc) ==
    IF Len(sorted) = 0 THEN <<svc>>
    ELSE IF StrLess(svc.name, Head(sorted).name) THEN <<svc>> \o sorted
    ELSE <<Head(sorted)>> \o InsertByName(Tail(sorted), svc)

\* a plausible slip: the services left in insertion order
KeepOrder(sorted, svcs) == sorted \o svcs

RECURSIVE SortByName(_, _)
\* list.sort(key=lambda s: s["name"]): a stable sort by name
SortByName(sorted, svcs) ==
    IF Len(svcs) = 0 THEN sorted
    ELSE SortByName(InsertByName(sorted, Head(svcs)), Tail(svcs))

\* GolangGenerator._process_services
_process_services(processed_methods) ==
    LET service_map == ServiceMap(<<>>, processed_methods)
        others == SelectSeq(service_map, LAMBDA svc : svc.namespace # "default")
        default_svc == SelectSeq(service_map, LAMBDA svc : svc.namespace = "default")
    IN  SortByName(<<>>, others) \o default_svc

\* ------------------------------------------------- the output directory

RECURSIVE LastIndexIn(_, _, _)
\* position of the last occurrence of the character c in str[1..i], 0 if none
LastIndexIn(c, str, i) ==
    IF i = 0 THEN 0
    ELSE IF SubSeq(str, i, i) = c THEN i
    ELSE LastIndexIn(c, str, i - 1)

\* Path.suffix of a file name: from its last "." on, "" when it has none or
\* only a leading one
PathSuffix(name) ==
    LET i == LastIndexIn(".", name, Len(name))
    IN  IF i > 1 /\ i < Len(name) THEN SubSeq(name, i, Len(name)) ELSE ""

\* Path.stem: the file name without its suffix
PathStem(name) == SubSeq(name, 1, Len(name) - Len(PathSuffix(name)))

\* main_file = types_file.parent / f"{types_file.stem}_main{types_file.suffix}"
MainFile(output_path) == PathStem(output_path) \o "_main" \o PathSuffix(output_path)

\* a file that does not exist
Absent == [exists |-> FALSE]

\* a plausible slip: the companion taken to be absent whatever the directory holds
ExistsNever(files, name) == FALSE

\* Path.exists
Exists(files, name) == files[name].exists

\* template.render(**context): the text is a function of the template and of
\* the context, and is kept as that pair
Render(template, context) == [exists |-> TRUE, template |-> template, context |-> context]

TYPES_TEMPLATE == "golang-gorilla-types.go.jinja2"
MAIN_TEMPLATE == "golang-gorilla-main.go.jinja2"

\* the context after _process_methods, r being its outcome
GoContextOf(r) ==
    IF r.err THEN [err |-> TRUE]
    ELSE [err |-> FALSE,
          context |-> [type_definitions |-> r.defs,
                       services |-> _process_services(r.t),
                       error_types |-> _process_errors("go", r.t)]]

\* the context GolangGenerator.generate builds from a document (its
\* type_definitions, services and error_types entries), or the RecursionError
\* that _process_methods raised
GoContext(doc) ==
    GoContextOf(_process_methods("go", get_method_list(doc.methods), doc.schemas,
                                 {}, <<>>))

\* the processes that run the generator on the directory
Procs == {"p1", "p2"}

\* the output paths the runs are given
OutputPaths == {"server.go", "api"}

\* the files of the output directory: the primary files and their companions
OutputFiles == OutputPaths \cup {MainFile(o) : o \in OutputPaths}

\* a process that has not called generate()
NoRun == [at |-> "idle"]

\* ------------------------------------------ the parts a run leaves alone

\* no converter call is being followed
ConvIdle ==
    /\ lang = "go"
    /\ schemas = <<>>
    /\ generated_types = {}
    /\ type_definitions = <<>>
    /\ raised = FALSE
    /\ last = [op |-> "none"]
    /\ calls = 0

\* no go_field_name call is being followed
NameIdle ==
    /\ name_in = [style |-> "raw", words |-> <<>>, text |-> ""]
    /\ name_out = <<>>

\* no generation run is being followed
GenIdle ==
    /\ spec_methods = <<>>
    /\ pc = "idle"
    /\ processed = <<>>
    /\ error_types = <<>>
    /\ services = <<>>

\* no file is written
RegenIdle ==
    /\ fs = [name \in OutputFiles |-> Absent]
    /\ run = [p \in Procs |-> NoRun]
    /\ runs = 0

\* ------------------------------------------------ converter: the inputs

Ref(name) == ("$ref" :> (PREFIX_SCHEMAS \o name))
Prim(t) == ("type" :> t)
Prop(n, sch) == [name |-> n, schema |-> sch]
Obj(props, req) ==
    ("type" :> "object") @@ ("properties" :> props) @@ ("required" :> req)
Arr(items) == ("type" :> "array") @@ ("items" :> items)

\* the components.schemas tables a converter is constructed over
NoSchemas == EmptyObj

PlainSchemas ==
    ("User" :> Obj(<<Prop("id", Prim("integer")), Prop("name", Prim("string"))>>, {"id"}))
    @@ ("Pet" :> Obj(<<Prop("owner", Ref("User"))>>, {}))
    @@ ("Tags" :> Arr(Prim("string")))

CyclicSchemas ==
    ("Node" :> Obj(<<Prop("next", Ref("Node"))>>, {}))
    @@ ("Ping" :> Obj(<<Prop("pong", Ref("Pong"))>>, {"pong"}))
    @@ ("Pong" :> Obj(<<Prop("ping", Ref("Ping"))>>, {}))
    @@ ("User" :> Obj(<<Prop("id", Prim("integer"))>>, {"id"}))

\* a chain of references: Team -> Member -> Address
ChainSchemas ==
    ("Team" :> Obj(<<Prop("name", Prim("string")), Prop("lead", Ref("Member"))>>, {"name"}))
    @@ ("Member" :> Obj(<<Prop("address", Ref("Address"))>>, {}))
    @@ ("Address" :> Obj(<<Prop("street", Prim("string"))>>, {"street"}))

SchemaTables == {NoSchemas, PlainSchemas, CyclicSchemas, ChainSchemas}

\* the component names the inputs refer to
RefNames == {"User", "Pet", "Tags", "Node", "Ping", "Missing", "Team", "Member"}

\* a reference that is not a local component reference
ForeignRef == "other.json#/definitions/User"

RefInputs == {PREFIX_SCHEMAS \o n : n \in RefNames} \cup {ForeignRef}

ObjFlat == Obj(<<Prop("a", Prim("string"))>>, {"a"})
ObjNested ==
    Obj(<<Prop("data", Obj(<<Prop("x", Prim("integer"))>>, {})),
          Prop("items", Arr(ObjFlat)),
          Prop("owner", Ref("User"))>>, {"data"})

\* schemas whose conversion can register a type under the name hint
\* two siblings whose composite names meet: item, and items made singular
ObjClash ==
    Obj(<<Prop("item", Obj(<<Prop("x", Prim("integer"))>>, {})),
          Prop("items", Arr(ObjFlat))>>, {})

HintedSchemas ==
    {ObjFlat, ObjNested, ObjClash,
     ("allOf" :> <<ObjFlat, Obj(<<Prop("b", Prim("boolean"))>>, {})>>),
     ("allOf" :> <<ObjFlat, Obj(<<Prop("b", Prim("boolean")), Prop("a", Prim("integer"))>>,
                                {"b"})>>),
     ("allOf" :> <<ObjFlat, Ref("User")>>)}

PlainInputs ==
    {EmptyObj, Prim("string"), Prim("integer"), Prim("object"),
     Arr(Ref("User")),
     ("oneOf" :> <<Prim("string"), Ref("Pet")>>),
     ("anyOf" :> <<Ref("User"), Prim("integer")>>),
     ("allOf" :> <<Ref("User"), ObjFlat>>),
     ("type" :> "string") @@ ("enum" :> <<[kind |-> "str", text |-> "a"]>>)}
    \cup {("$ref" :> r) : r \in RefInputs}

Hints == {"Foo", "User"}

ConvertInputs ==
    {<<sch, "">> : sch \in PlainInputs \cup HintedSchemas}
    \cup (HintedSchemas \X Hints)

\* the method objects of the document (before get_method_list)
Param(n, req, sch) == ("name" :> n) @@ ("required" :> req) @@ ("schema" :> sch)
Method(n, params) == ("name" :> n) @@ ("params" :> params)
WithResult(m, sch) == m @@ ("result" :> (("name" :> "out") @@ ("schema" :> sch)))
ByPosition(m) == m @@ ("paramStructure" :> "by-position")

MGet == WithResult(Method("user.get", <<Param("id", TRUE, Prim("integer"))>>), Ref("User"))
MFind ==
    ByPosition(WithResult(
        Method("user.find", <<Param("name", TRUE, Prim("string")),
                              Param("limit", FALSE, Prim("integer"))>>),
        Ref("User")))
MList ==
    ByPosition(WithResult(
        Method("user.list", <<Param("tags", FALSE, Arr(Prim("string"))),
                              ("$ref" :> (PREFIX_DESCRIPTORS \o "UserId")),
                              Param("filter", FALSE, ObjFlat)>>),
        Arr(Ref("User"))))
MPing == WithResult(Method("ping", <<>>), Prim("string"))
MLog == Method("log", <<Param("data", FALSE, ObjFlat)>>)
MNotify == ByPosition(Method("user.notify", <<Param("msg", TRUE, Prim("string"))>>))
MWalk == WithResult(Method("node.walk", <<>>), Ref("Node"))
MMake == WithResult(Method("user.make", <<Param("user", TRUE, Ref("User"))>>), ObjFlat)

ConvMethods == {MGet, MFind, MList, MPing, MLog, MNotify, MWalk, MMake}

\* ------------------------------------------- converter: the specification

ConvInit ==
    /\ lang \in {"go", "ts"}
    /\ schemas \in SchemaTables
    /\ generated_types = {}
    /\ type_definitions = <<>>
    /\ raised = FALSE
    /\ last = [op |-> "none"]
    /\ calls = 0
    /\ NameIdle
    /\ GenIdle
    /\ RegenIdle

\* what a call with the outcome r leaves: the registry, the count of calls
\* and, in last, the call (its arguments in call) with what it returned
Called(call, r) ==
    /\ generated_types' = r.gen
    /\ type_definitions' = r.defs
    /\ raised' = r.err
    /\ calls' = calls + 1
    /\ last' = call @@ [t |-> r.t, err |-> r.err,
                        gen0 |-> generated_types, defs0 |-> type_definitions]
    /\ UNCHANGED <<lang, schemas, nameVars, genVars, regenVars>>

CanCall == ~raised /\ calls < MaxOps

\* converter.convert_schema(schema, type_name)
CallConvertSchema ==
    /\ CanCall
    /\ \E in \in ConvertInputs :
         Called([op |-> "convert", schema |-> in[1], hint |-> in[2]],
                ConvertSchema(lang, in[1], in[2], schemas,
                              generated_types, type_definitions))

\* converter.resolve_ref(ref)
CallResolveRef ==
    /\ CanCall
    /\ \E ref \in RefInputs :
         Called([op |-> "resolve", ref |-> ref],
                ResolveRef(lang, ref, schemas, generated_types, type_definitions))

\* one iteration of _process_methods on this converter, for one method of
\* the document
CallProcessMethod ==
    /\ CanCall
    /\ \E m \in ConvMethods :
         Called([op |-> "process", method |-> m],
                ProcessMethod(lang, ParseMethod(m), schemas,
                              generated_types, type_definitions))

ConvNext == CallConvertSchema \/ CallResolveRef \/ CallProcessMethod

SpecConv == ConvInit /\ [][ConvNext]_vars

\* ------------------------------------------------- converter: the claims

\* the name a declaration of type_definitions declares: the word after
\* "type " (Go) or "export interface " (TypeScript)
DeclName(l, def) ==
    LET rest == SubSeq(def, Len(IF l = "go" THEN "type " ELSE "export interface ") + 1,
                       Len(def))
    IN  SubSeq(rest, 1, IndexIn(" ", rest, 1) - 1)

\* how many declarations of type_definitions declare name n
DeclCount(n) ==
    Cardinality({i \in 1..Len(type_definitions) : DeclName(lang, type_definitions[i]) = n})

\* the components a component's properties refer to
PropRefs(table, n) ==
    LET props == Get(table[n], "properties", <<>>)
    IN  {LastSegment(props[i].schema["$ref"]) :
            i \in {j \in 1..Len(props) : "$ref" \in DOMAIN props[j].schema}}
        \cap DOMAIN table

RECURSIVE ReachIn(_, _, _)
\* the components reached from the set seen in at most k more steps
ReachIn(table, seen, k) ==
    IF k = 0 THEN seen
    ELSE ReachIn(table, seen \cup UNION {PropRefs(table, n) : n \in seen}, k - 1)

\* the components reached from n through one or more property references
ReachFrom(table, n) == ReachIn(table, PropRefs(table, n), Cardinality(DOMAIN table))

\* n refers to itself, directly or through other components
OnCycle(table, n) == n \in DOMAIN table /\ n \in ReachFrom(table, n)

\* C1: converting a component that refers to itself through a property
\* (Node), or one of two components that refer to each other (Ping, Pong),
\* ends without RecursionError and leaves exactly one declaration of each
\* component of the cycle in the registry.
C1_CycleTolerance ==
    \A n \in RefNames :
        (last.op = "resolve" /\ last.ref = PREFIX_SCHEMAS \o n /\ OnCycle(schemas, n))
        => /\ ~last.err
           /\ \A m \in ReachFrom(schemas, n) : OnCycle(schemas, m) => DeclCount(m) = 1

\* C2: the declarations of type_definitions have pairwise distinct names,
\* generated_types is exactly the set of those names, and a component object
\* schema with properties that a processed method's result refers to is
\* declared exactly once.
C2_RegistryUnique ==
    /\ \A i, j \in 1..Len(type_definitions) :
          DeclName(lang, type_definitions[i]) = DeclName(lang, type_definitions[j])
          => i = j
    /\ generated_types =
          {DeclName(lang, type_definitions[i]) : i \in 1..Len(type_definitions)}
    /\ (last.op = "process" /\ ~last.err /\ "result" \in DOMAIN last.method)
       => LET sch == Get(last.method["result"], "schema", EmptyObj)
          IN  ("$ref" \in DOMAIN sch /\ StartsWith(sch["$ref"], PREFIX_SCHEMAS)
               /\ LastSegment(sch["$ref"]) \in DOMAIN schemas
               /\ Len(Get(schemas[LastSegment(sch["$ref"])], "properties", <<>>)) > 0)
              => DeclCount(LastSegment(sch["$ref"])) = 1

\* two methods whose results refer to the component User have been processed
\* by the Go processor, and User is declared once
C2_Witness ==
    /\ lang = "go" /\ schemas = PlainSchemas
    /\ last.op = "process" /\ last.method = MFind /\ ~last.err
    /\ {"User", "UserServiceListResult"} \subseteq last.gen0
    /\ DeclCount("User") = 1

\* the last declaration convert_schema(S, hint) registers on a fresh
\* converter: the declaration of hint, when hint names no component
DeclarationOf(schema, hint) ==
    LastOf(ConvertSchema(lang, schema, hint, schemas, {}, <<>>).defs)

\* C3: a call convert_schema(S, hint) on an object schema S with declared
\* properties, under a hint (not a component name) that an earlier
\* conversion of S has registered, leaves the registry as it was and returns
\* the hint, the type expression the first call returned.
C3_IdempotentRegistration ==
    (/\ last.op = "convert" /\ ~last.err
     /\ Get(last.schema, "type", "") = "object"
     /\ Len(Get(last.schema, "properties", <<>>)) > 0
     /\ last.hint # "" /\ last.hint \in last.gen0
     /\ last.hint \notin DOMAIN schemas
     /\ \E i \in 1..Len(last.defs0) :
           last.defs0[i] = DeclarationOf(last.schema, last.hint))
    => /\ generated_types = last.gen0
       /\ type_definitions = last.defs0
       /\ last.t = last.hint

\* C4: a call on a reference that cannot be resolved (not a local component
\* reference, or naming a component that components.schemas does not hold)
\* returns the opaque type and does not raise.
C4_UnresolvableIsOpaque ==
    LET ref == IF last.op = "resolve" THEN last.ref
               ELSE IF last.op = "convert" /\ "$ref" \in DOMAIN last.schema
               THEN last.schema["$ref"] ELSE ""
    IN  (ref # "" /\ (~StartsWith(ref, PREFIX_SCHEMAS)
                      \/ LastSegment(ref) \notin DOMAIN schemas))
        => ~last.err /\ last.t = Opaque(lang)

\* the name of the result type the processor derives for a processed method
ResultTypeName(out) ==
    IF lang = "go" THEN out["service_name"] \o out["go_method_name"] \o "Result"
    ELSE _capitalize_first(out["safe_name"]) \o "Result"

\* C7: a processed method whose spec object has no result key is flagged
\* is_notification, gets no reply type (Go: reply_inline_type is None;
\* TypeScript: result_type is void) and its processing adds no declaration
\* of its result type name to the registry.
C7_Notification ==
    (last.op = "process" /\ ~last.err /\ "result" \notin DOMAIN last.method)
    => /\ last.t["is_notification"]
       /\ lang = "go" => "reply_inline_type" \notin DOMAIN last.t
       /\ lang = "ts" => last.t["result_type"] = "void"
       /\ ResultTypeName(last.t) \in generated_types
          => ResultTypeName(last.t) \in last.gen0

\* the notification user.notify has been processed after a method with a
\* result
C7_Witness ==
    /\ last.op = "process" /\ last.method = MNotify /\ ~last.err
    /\ last.gen0 # {}
    /\ last.t["is_notification"]

\* the types of the parameters of a processed by-position method, as the
\* converter gives them: TypeScript converts each schema without a name, Go
\* through _field_go_type under the Args type's name
SlotType(out, param) ==
    IF lang = "go"
    THEN GoFieldGoType(param.schema, go_field_name(param.name), out["args_type"],
                       schemas, generated_types, type_definitions, 0).t
    ELSE TsConvertSchema(param.schema, "", schemas, generated_types,
                         type_definitions, 0).t

\* the Go field f is the slot of the parameter, whose converted type is
\* slot_type: the type as it is for a required parameter, a nil-able type
\* (the type itself or a pointer to it) tagged omitempty for an optional one
GoSlotOk(f, param, slot_type) ==
    /\ f.json_name = param.name
    /\ f.required = param.required
    /\ param.required => f.go_type = slot_type
    /\ ~param.required =>
         /\ f.go_type \in {slot_type, "*" \o slot_type}
         /\ GoNoPointer(f.go_type)
         /\ EndsWith(f.tag, ",omitempty\"" \o BACKQUOTE)

\* the TypeScript slot of the parameter
TsSlotText(param, slot_type) ==
    slot_type \o (IF param.required THEN "" ELSE " | undefined")

\* the parameter type out has one slot per parameter of params, in order
SlotsOk(out, params) ==
    /\ out["is_positional"]
    /\ lang = "ts" =>
         out["params_type"] =
             "[" \o JoinWith([i \in 1..Len(params) |->
                                TsSlotText(params[i], SlotType(out, params[i]))],
                             ", ") \o "]"
    /\ lang = "go" =>
         /\ Len(out["args_fields"]) = Len(params)
         /\ \A i \in 1..Len(params) :
              GoSlotOk(out["args_fields"][i], params[i], SlotType(out, params[i]))

\* C8: for a processed by-position method with parameters, the parameter
\* type has one slot per parameter, in declaration order, each the converted
\* type of the parameter's schema; the slot of a parameter that is not
\* required is marked: " | undefined" in the TypeScript tuple, omitempty and a
\* nil-able type (pointer, slice, map or interface) in the Go field.
C8_Positional ==
    (/\ last.op = "process" /\ ~last.err
     /\ Get(last.method, "paramStructure", "either") = "by-position"
     /\ Len(Get(last.method, "params", <<>>)) > 0)
    => SlotsOk(last.t, _parse_params(last.method["params"]))

\* user.find (a required string, then an optional integer) has been
\* processed by the TypeScript processor into a two-slot tuple
C8_Witness ==
    /\ lang = "ts" /\ last.op = "process" /\ last.method = MFind /\ ~last.err
    /\ last.t["params_type"] = "[string, number | undefined]"

\* ------------------------------------------ generation: the specification

Error(code, message) == ("code" :> code) @@ ("message" :> message)
WithErrors(m, errors) == m @@ ("errors" :> errors)

GZeta ==
    WithErrors(WithResult(Method("zeta.run", <<>>), Prim("string")),
               <<Error(404, "Not found"), Error(500, "Server error")>>)
GAlpha ==
    WithErrors(WithResult(Method("alpha.run", <<Param("id", TRUE, Prim("integer"))>>),
                          Ref("User")),
               <<Error(404, "Missing")>>)
GRun ==
    WithErrors(Method("run", <<>>),
               <<("message" :> "No code"), Error(500, "Other"), Error(-32000, "")>>)
GStop ==
    WithErrors(ByPosition(WithResult(
                   Method("alpha.stop", <<Param("force", FALSE, Prim("boolean"))>>),
                   Ref("User"))),
               <<("$ref" :> (PREFIX_ERRORS \o "NotFound")),
                 ("$ref" :> (PREFIX_ERRORS \o "Nope"))>>)
GBeta == WithResult(Method("Beta.go", <<>>), Arr(Prim("string")))
GDefault ==
    WithErrors(Method("default.x", <<>>),
               <<Error(404, "Missing"), Error(404, "Not found"), Error(7, "not-found!")>>)
GTick == WithErrors(Method("Alpha.tick", <<>>), <<Error(500, "Other")>>)

\* a method whose name differs from alpha.run by the case of its namespace
GUpper == WithResult(Method("Alpha.run", <<>>), Prim("integer"))

GenMethods == {GZeta, GAlpha, GRun, GStop, GBeta, GDefault, GTick, GUpper}

\* the method lists of a document: names identify methods
MethodLists ==
    {ms \in UNION {[1..n -> GenMethods] : n \in 0..MaxMethods} :
        \A i, j \in 1..Len(ms) : ms[i]["name"] = ms[j]["name"] => i = j}

GenInit ==
    /\ lang \in {"go", "ts"}
    /\ schemas = PlainSchemas
    /\ generated_types = {}
    /\ type_definitions = <<>>
    /\ raised = FALSE
    /\ last = [op |-> "none"]
    /\ calls = 0
    /\ NameIdle
    /\ RegenIdle
    /\ spec_methods \in MethodLists
    /\ pc = "start"
    /\ processed = <<>>
    /\ error_types = <<>>
    /\ services = <<>>

\* what _process_methods leaves, r being its outcome
MethodsProcessed(r) ==
    /\ processed' = (IF r.err THEN <<>> ELSE r.t)
    /\ generated_types' = r.gen
    /\ type_definitions' = r.defs
    /\ raised' = r.err
    /\ pc' = (IF r.err THEN "failed" ELSE "methods")

\* generate(): converter = Converter(spec.components);
\* _process_methods(spec.get_method_list(), converter)
GenProcessMethods ==
    /\ pc = "start"
    /\ MethodsProcessed(_process_methods(lang, get_method_list(spec_methods),
                                         schemas, {}, <<>>))
    /\ UNCHANGED <<lang, schemas, last, calls, nameVars, regenVars, spec_methods,
                   error_types, services>>

\* generate(): error_types = self._process_errors(processed_methods)
GenProcessErrors ==
    /\ pc = "methods"
    /\ error_types' = _process_errors(lang, processed)
    /\ pc' = "errors"
    /\ UNCHANGED <<convVars, nameVars, regenVars, spec_methods, processed, services>>

\* GolangGenerator.generate(): services = self._process_services(processed_methods)
GenProcessServices ==
    /\ pc = "errors"
    /\ lang = "go"
    /\ services' = _process_services(processed)
    /\ pc' = "services"
    /\ UNCHANGED <<convVars, nameVars, regenVars, spec_methods, processed, error_types>>

GenNext == GenProcessMethods \/ GenProcessErrors \/ GenProcessServices

SpecGen == GenInit /\ [][GenNext]_vars

RECURSIVE FlatErrors(_)
\* the errors of a method list in method-then-declaration order
FlatErrors(ms) ==
    IF Len(ms) = 0 THEN <<>> ELSE Head(ms)["errors"] \o FlatErrors(Tail(ms))

\* the errors of the document that carry a code, in that order
CodedErrors ==
    SelectSeq(FlatErrors(get_method_list(spec_methods)),
              LAMBDA e : "code" \in DOMAIN e)

\* the place of the first error with code c
FirstWith(c) ==
    CHOOSE k \in 1..Len(CodedErrors) :
        /\ CodedErrors[k]["code"] = c
        /\ \A h \in 1..(k - 1) : CodedErrors[h]["code"] # c

\* C5: the error catalog holds one entry per distinct non-null code of the
\* methods' errors, each with the message of the code's first occurrence in
\* method-then-declaration order, the entries in first-occurrence order.
C5_ErrorDedup ==
    pc \in {"errors", "services"}
    => /\ \A i, j \in 1..Len(error_types) :
             error_types[i].code = error_types[j].code => i = j
       /\ {error_types[i].code : i \in 1..Len(error_types)}
             = {CodedErrors[k]["code"] : k \in 1..Len(CodedErrors)}
       /\ \A i \in 1..Len(error_types) :
             error_types[i].message = CodedErrors[FirstWith(error_types[i].code)]["message"]
       /\ \A i, j \in 1..Len(error_types) :
             i < j => FirstWith(error_types[i].code) < FirstWith(error_types[j].code)

\* zeta.run declares 404 "Not found" and alpha.run 404 "Missing": the catalog
\* has the one entry 404 "Not found", before 500
C5_Witness ==
    /\ pc = "errors"
    /\ spec_methods = <<GZeta, GAlpha>>
    /\ Len(error_types) = 2
    /\ error_types[1].code = 404 /\ error_types[1].message = "Not found"

\* C6: in the Go service list the services of the namespaces other than
\* default come first, in ascending order of their service name, the default
\* service is the last element whenever a method has no "." in its name, and
\* the namespaces of the list are those of the methods, whatever their order.
C6_ServiceOrder ==
    pc = "services"
    => LET n == Len(services)
           IsDefault(i) == services[i].namespace = "default"
       IN  /\ \A i, j \in 1..n :
                (i < j /\ ~IsDefault(i) /\ ~IsDefault(j))
                => ~StrLess(services[j].name, services[i].name)
           /\ \A i \in 1..n : IsDefault(i) => i = n
           /\ (\E k \in 1..Len(spec_methods) : ~HasChar(spec_methods[k]["name"], "."))
              => n > 0 /\ IsDefault(n) /\ services[n].name = "DefaultService"
           /\ {services[i].namespace : i \in 1..n}
                = {_extract_namespace(spec_methods[k]["name"])[1] :
                      k \in 1..Len(spec_methods)}
           /\ \A i \in 1..n :
                services[i].name = _namespace_to_service(services[i].namespace)

\* zeta.run, alpha.run, run have been grouped into AlphaService, ZetaService,
\* DefaultService
C6_Witness ==
    /\ pc = "services"
    /\ spec_methods = <<GZeta, GAlpha, GRun>>
    /\ [i \in 1..Len(services) |-> services[i].name]
          = <<"AlphaService", "ZetaService", "DefaultService">>

\* ---------------------------------------- regeneration: the specification

Doc(methods, table) == [methods |-> methods, schemas |-> table]

\* the documents the runs are given: two that generate, with different
\* contexts, and one whose result refers to a component on a cycle
Docs ==
    {Doc(<<GZeta, GAlpha>>, PlainSchemas),
     Doc(<<GRun>>, PlainSchemas),
     Doc(<<MWalk>>, CyclicSchemas)}

RegenInit ==
    /\ ConvIdle
    /\ NameIdle
    /\ GenIdle
    /\ RegenIdle

\* no process is between the start and the end of generate()
NoneRunning == \A p \in Procs : run[p].at \in {"idle", "done", "failed"}

\* a run after generate() has built its context c, or has raised
Started(n, doc, output_path, c) ==
    IF c.err THEN [at |-> "failed", n |-> n, doc |-> doc, output_path |-> output_path]
    ELSE [at |-> "write_types", n |-> n, doc |-> doc, output_path |-> output_path,
          context |-> c.context]

\* generate(), lines 36-60, in a process started when no other run is under
\* way: the context is built from the document, or _process_methods raises and
\* main() returns 1 with nothing written
RunGenerate(p, doc, output_path) ==
    /\ NoneRunning
    /\ runs < MaxRuns
    /\ runs' = runs + 1
    /\ run' = [run EXCEPT ![p] = Started(runs + 1, doc, output_path, GoContext(doc))]
    /\ UNCHANGED <<fs, convVars, nameVars, genVars>>

\* types_file.write_text(types_template.render(**context))
RunWriteTypes(p) ==
    /\ run[p].at = "write_types"
    /\ fs' = [fs EXCEPT ![run[p].output_path] = Render(TYPES_TEMPLATE, run[p].context)]
    /\ run' = [run EXCEPT ![p].at = "check_main"]
    /\ UNCHANGED <<runs, convVars, nameVars, genVars>>

\* if not main_file.exists()
RunCheckMain(p) ==
    /\ run[p].at = "check_main"
    /\ run' = [run EXCEPT ![p] =
                 IF Exists(fs, MainFile(run[p].output_path))
                 THEN [run[p] EXCEPT !.at = "done"] @@ [wrote_main |-> FALSE]
                 ELSE [run[p] EXCEPT !.at = "write_main"]]
    /\ UNCHANGED <<fs, runs, convVars, nameVars, genVars>>

\* main_file.write_text(main_template.render(**context))
RunWriteMain(p) ==
    /\ run[p].at = "write_main"
    /\ fs' = [fs EXCEPT ![MainFile(run[p].output_path)] =
                 Render(MAIN_TEMPLATE, run[p].context)]
    /\ run' = [run EXCEPT ![p] = [run[p] EXCEPT !.at = "done"] @@ [wrote_main |-> TRUE]]
    /\ UNCHANGED <<runs, convVars, nameVars, genVars>>

RegenNext ==
    \E p \in Procs :
        \/ \E doc \in Docs, output_path \in OutputPaths : RunGenerate(p, doc, output_path)
        \/ RunWriteTypes(p)
        \/ RunCheckMain(p)
        \/ RunWriteMain(p)

SpecRegen == RegenInit /\ [][RegenNext]_vars

\* the runs that have written their primary file
Written == {"check_main", "write_main", "done"}

\* the primary file of the run started last, once written, is the rendering
\* of the context of that run's document
PrimaryOfLastRun ==
    \A p \in Procs :
        (run[p].at \in Written /\ run[p].n = runs)
        => fs[run[p].output_path] = Render(TYPES_TEMPLATE, GoContext(run[p].doc).context)

\* a step changes a companion file only from absent, and only as the write of
\* a run that found it absent
CompanionWrittenOnce ==
    \A o \in OutputPaths :
        LET m == MainFile(o)
        IN  /\ fs[m] # Absent => fs'[m] = fs[m]
            /\ fs'[m] # fs[m]
               => \E p \in Procs :
                     /\ run[p].at = "write_main" /\ run[p].output_path = o
                     /\ run'[p].at = "done" /\ run'[p].wrote_main
                     /\ fs'[m] = Render(MAIN_TEMPLATE, GoContext(run[p].doc).context)

\* C9: over the runs of the Go generator on one directory, the primary file
\* of each run that has written it is the rendering of that run's document,
\* and a companion file is written only by a run that finds it absent and is
\* never changed afterwards, whatever the later documents are.
C9_Regeneration == []PrimaryOfLastRun /\ [][CompanionWrittenOnce]_vars

\* a second run on the same path, with another document, has ended without
\* writing the companion: the primary file has the second context, the
\* companion still the first
C9_Witness ==
    \E p \in Procs :
        /\ runs >= 2 /\ run[p].at = "done" /\ run[p].n = runs /\ ~run[p].wrote_main
        /\ LET o == run[p].output_path
           IN  /\ fs[o].context = GoContext(run[p].doc).context
               /\ fs[MainFile(o)] # Absent
               /\ fs[MainFile(o)].context # fs[o].context

\* ------------------------------------------------- naming: specification

\* words the generated names are made of: every acronym and three others
NameWords == acronyms \cup {"user", "name", "created"}

WordSeqs == UNION {[1..n -> NameWords] : n \in 1..MaxWords}

RECURSIVE CamelTail(_)
CamelTail(ws) ==
    IF Len(ws) = 0 THEN ""
    ELSE UpperChar(Head(Head(ws))) \o Tail(Head(ws)) \o CamelTail(Tail(ws))

\* the camelCase spelling of a word list: userId for <<"user", "id">>
CamelJoin(ws) == Head(ws) \o CamelTail(Tail(ws))

\* the snake_case spelling: user_id
SnakeJoin(ws) == JoinWith(ws, "_")

\* names outside the two regular spellings
RawNames == {"", "ID", "userID", "HTTPServer", "_id", "a__b", "x1", "userABc", "x1Y"}

NameInputs ==
    {[style |-> "camel", words |-> ws, text |-> CamelJoin(ws)] : ws \in WordSeqs}
    \cup {[style |-> "snake", words |-> ws, text |-> SnakeJoin(ws)] : ws \in WordSeqs}
    \cup {[style |-> "raw", words |-> <<>>, text |-> t] : t \in RawNames}

NameInit ==
    /\ name_in \in NameInputs
    /\ name_out = <<>>
    /\ ConvIdle
    /\ GenIdle
    /\ RegenIdle

\* one call converter.go_field_name(name_in.text)
CallGoFieldName ==
    /\ Len(name_out) < MaxCalls
    /\ name_out' = Append(name_out, go_field_name(name_in.text))
    /\ UNCHANGED <<name_in, convVars, genVars, regenVars>>

NameNext == CallGoFieldName

SpecName == NameInit /\ [][NameNext]_vars

\* what spec.md 4.2 asks of one word
RenderedWord(w) ==
    IF w \in acronyms THEN StrUpper(w) ELSE UpperChar(Head(w)) \o Tail(w)

RECURSIVE RenderedWords(_)
RenderedWords(ws) ==
    IF Len(ws) = 0 THEN "" ELSE RenderedWord(Head(ws)) \o RenderedWords(Tail(ws))

\* C10: every call go_field_name(a) on a recognized acronym a returns a in
\* upper case, every call on a camelCase name returns its words with each
\* acronym upper-cased and each other word capitalized, and all the calls made
\* on one name return the same identifier.
C10_AcronymNormalization ==
    \A i \in 1..Len(name_out) :
        /\ name_in.text \in acronyms => name_out[i] = StrUpper(name_in.text)
        /\ name_in.style = "camel" => name_out[i] = RenderedWords(name_in.words)
        /\ name_out[i] = name_out[1]

\* userId has been converted MaxCalls times, to UserID
C10_Witness ==
    /\ name_in.text = "userId"
    /\ Len(name_out) = MaxCalls
    /\ name_out[MaxCalls] = "UserID"

\* ------------------------------------------------- the command: main()

\* the spec argument names a file: none, or one with a suffix whose text is
\* JSON (data, a dict) or not
NoFile == [exists |-> FALSE]
SpecFile(suffix, valid, data) ==
    [exists |-> TRUE, suffix |-> suffix, valid |-> valid, data |-> data]

\* a plausible slip: the test for the methods key left out
HasRequiredKeysButMethods(spec_data) ==
    "openrpc" \in DOMAIN spec_data /\ "info" \in DOMAIN spec_data

\* the basic validation of from_file: none of its three tests raises
HasRequiredKeys(spec_data) ==
    /\ "openrpc" \in DOMAIN spec_data
    /\ "info" \in DOMAIN spec_data
    /\ "methods" \in DOMAIN spec_data

\* OpenRPCSpec.__init__: the fields the generators read
OpenRPCSpec(spec_data) ==
    [methods |-> Get(spec_data, "methods", <<>>),
     components |-> Get(spec_data, "components", EmptyObj)]

\* OpenRPCSpec.from_file: err is the exception raised, "" for none
from_file(file) ==
    IF ~file.exists THEN [err |-> "FileNotFoundError"]
    ELSE IF file.suffix # ".json" THEN [err |-> "ValueError"]
    ELSE IF ~file.valid THEN [err |-> "JSONDecodeError"]
    ELSE IF ~HasRequiredKeys(file.data) THEN [err |-> "ValueError"]
    ELSE [err |-> "", spec |-> OpenRPCSpec(file.data)]

\* what a generator reads of a loaded spec: spec.methods, and
\* components.get("schemas", {}) in the converter's constructor
DocOf(spec) == Doc(spec.methods, Get(spec.components, "schemas", EmptyObj))

\* output_path when --output is not given ("" stands for None); the leading
\* "./" of the two defaults names the directory the files are in
DefaultOutput(output, language) ==
    IF output # "" THEN output
    ELSE IF language = "go-gorilla" THEN "server.go"
    ELSE "client.ts"

CLIENT_TEMPLATE == "typescript-client.ts.jinja2"

\* the context TypeScriptGenerator.generate builds, r being the outcome of
\* _process_methods
TsContextOf(r) ==
    IF r.err THEN [err |-> TRUE]
    ELSE [err |-> FALSE,
          context |-> [methods |-> r.t,
                       type_definitions |-> r.defs,
                       error_types |-> _process_errors("ts", r.t)]]

TsContext(doc) ==
    TsContextOf(_process_methods("ts", get_method_list(doc.methods), doc.schemas,
                                 {}, <<>>))

\* the context of the generator main() chooses
CliContext(language, doc) ==
    IF language = "go-gorilla" THEN GoContext(doc) ELSE TsContext(doc)

\* the directory the output files are in, as an entry of the file system
DirNode == "."

\* Path.write_text / open(path, "w") + write: the file takes the content; a
\* file that does not exist cannot be created in a directory that is not
\* writable, and the call raises PermissionError
WriteText(files, name, content) ==
    IF ~files[name].exists /\ ~files[DirNode].writable
    THEN [err |-> TRUE, files |-> files]
    ELSE [err |-> FALSE, files |-> [files EXCEPT ![name] = content]]

\* ------------------------------------------ the command: specification

\* --output as given: none, or a path without suffix
CliOutputs == {"", "api"}

CliLanguages == {"typescript", "go-gorilla"}

CliPaths == {DefaultOutput(o, l) : o \in CliOutputs, l \in CliLanguages}

CliFileNames == CliPaths \cup {MainFile(o) : o \in CliPaths}

Info == ("title" :> "api")

\* the spec files the command is given
GoodData ==
    ("openrpc" :> "1.2.6") @@ ("info" :> Info) @@ ("methods" :> <<GZeta, GAlpha>>)
    @@ ("components" :> ("schemas" :> PlainSchemas))

CyclicData ==
    ("openrpc" :> "1.2.6") @@ ("info" :> Info) @@ ("methods" :> <<MWalk>>)
    @@ ("components" :> ("schemas" :> CyclicSchemas))

\* a dict without the key k
Without(data, k) == [x \in DOMAIN data \ {k} |-> data[x]]

CliSpecFiles ==
    {NoFile,
     SpecFile(".yaml", TRUE, GoodData),
     SpecFile(".json", FALSE, EmptyObj),
     SpecFile(".json", TRUE, GoodData),
     SpecFile(".json", TRUE, CyclicData)}
    \cup {SpecFile(".json", TRUE, Without(GoodData, k)) :
             k \in {"openrpc", "info", "methods"}}

\* a file left by an earlier version of the generator
OldFile == Render("old", EmptyObj)

\* the output directory before the first run: writable or not, empty or
\* holding an earlier server.go
CliDirs ==
    {[name \in CliFileNames \cup {DirNode} |->
         IF name = DirNode THEN [exists |-> TRUE, writable |-> w]
         ELSE IF name \in old THEN OldFile
         ELSE Absent] : w \in BOOLEAN, old \in {{}, {"server.go"}}}

CliInit ==
    /\ ConvIdle
    /\ NameIdle
    /\ GenIdle
    /\ fs \in CliDirs
    /\ run = [p \in Procs |-> NoRun]
    /\ runs = 0

\* no process is inside main()
CliNoneRunning == \A p \in Procs : run[p].at \in {"idle", "exit"}

\* main() returns code
Exited(r, code) == [r EXCEPT !.at = "exit"] @@ [code |-> code]

\* the run goes on to next, the end of main() being "exit" with status 0
Step(r, next) == IF next = "exit" THEN Exited(r, 0) ELSE [r EXCEPT !.at = next]

\* main() up to the load, in a process started when no other is under way
CliMain(p, file, language, output) ==
    /\ run[p] = NoRun
    /\ CliNoneRunning
    /\ runs' = runs + 1
    /\ run' = [run EXCEPT ![p] =
                 [at |-> "load", n |-> runs + 1, file |-> file, language |-> language,
                  output_path |-> DefaultOutput(output, language),
                  parsed |-> FALSE, wrote |-> {}]]
    /\ UNCHANGED <<fs, convVars, nameVars, genVars>>

\* the run after spec = OpenRPCSpec.from_file(args.spec), whose outcome is f
Loaded(r, f) ==
    IF f.err # "" THEN Exited(r, 1)
    ELSE [r EXCEPT !.at = "generate"] @@ [spec |-> f.spec]

\* spec = OpenRPCSpec.from_file(args.spec); an exception ends main() with 1
CliLoad(p) ==
    /\ run[p].at = "load"
    /\ run' = [run EXCEPT ![p] = Loaded(run[p], from_file(run[p].file))]
    /\ UNCHANGED <<fs, runs, convVars, nameVars, genVars>>

\* the run after generate() has parsed and processed the methods, c being
\* the context or the exception
Generated(r, c) ==
    IF c.err THEN Exited([r EXCEPT !.parsed = TRUE], 1)
    ELSE [r EXCEPT !.parsed = TRUE,
                   !.at = IF r.language = "go-gorilla" THEN "write_types"
                          ELSE "write_client"]
         @@ [context |-> c.context]

\* generator.generate(spec, output_path, ...) up to its context
CliGenerate(p) ==
    /\ run[p].at = "generate"
    /\ run' = [run EXCEPT ![p] =
                 Generated(run[p], CliContext(run[p].language, DocOf(run[p].spec)))]
    /\ UNCHANGED <<fs, runs, convVars, nameVars, genVars>>

\* a write of the run of p, w being its outcome: the file is written and the
\* run goes on to next, or the exception ends main() with 1
Wrote(p, name, next, w) ==
    /\ fs' = w.files
    /\ run' = [run EXCEPT ![p] =
                 IF w.err THEN Exited(run[p], 1)
                 ELSE Step([run[p] EXCEPT !.wrote = @ \cup {name}], next)]
    /\ UNCHANGED <<runs, convVars, nameVars, genVars>>

\* GolangGenerator.generate: types_file.write_text(...)
CliWriteTypes(p) ==
    /\ run[p].at = "write_types"
    /\ Wrote(p, run[p].output_path, "check_main",
             WriteText(fs, run[p].output_path, Render(TYPES_TEMPLATE, run[p].context)))

\* TypeScriptGenerator.generate: open(output_file, "w") and f.write(output)
CliWriteClient(p) ==
    /\ run[p].at = "write_client"
    /\ Wrote(p, run[p].output_path, "exit",
             WriteText(fs, run[p].output_path, Render(CLIENT_TEMPLATE, run[p].context)))

\* GolangGenerator.generate: if not main_file.exists()
CliCheckMain(p) ==
    /\ run[p].at = "check_main"
    /\ run' = [run EXCEPT ![p] =
                 Step(run[p], IF Exists(fs, MainFile(run[p].output_path))
                              THEN "exit" ELSE "write_main")]
    /\ UNCHANGED <<fs, runs, convVars, nameVars, genVars>>

\* GolangGenerator.generate: main_file.write_text(...)
CliWriteMain(p) ==
    /\ run[p].at = "write_main"
    /\ Wrote(p, MainFile(run[p].output_path), "exit",
             WriteText(fs, MainFile(run[p].output_path),
                       Render(MAIN_TEMPLATE, run[p].context)))

CliNext ==
    \E p \in Procs :
        \/ \E file \in CliSpecFiles, language \in CliLanguages, output \in CliOutputs :
              CliMain(p, file, language, output)
        \/ CliLoad(p)
        \/ CliGenerate(p)
        \/ CliWriteTypes(p)
        \/ CliWriteClient(p)
        \/ CliCheckMain(p)
        \/ CliWriteMain(p)

SpecCli == CliInit /\ [][CliNext]_vars

\* the document of the file lacks one of the three top-level keys
LacksKey(file) ==
    /\ file.exists /\ file.suffix = ".json" /\ file.valid
    /\ \E k \in {"openrpc", "info", "methods"} : k \notin DOMAIN file.data

\* C11: a run on a document that lacks openrpc, info or methods never goes
\* past the load: it has parsed no method and converted no schema, has
\* written no file, and once main() has returned its status is not 0.
C11_FailFast ==
    \A p \in Procs :
        (run[p].at # "idle" /\ LacksKey(run[p].file))
        => /\ run[p].at \in {"load", "exit"}
           /\ ~run[p].parsed
           /\ run[p].wrote = {}
           /\ run[p].at = "exit" => run[p].code # 0

\* a Go run on a document that has openrpc and info but no methods has
\* returned 1, after a run on the full document had written its files
C11_Witness ==
    \E p \in Procs :
        /\ run[p].at = "exit" /\ run[p].code = 1 /\ run[p].n = 2
        /\ run[p].language = "go-gorilla"
        /\ run[p].file = SpecFile(".json", TRUE, Without(GoodData, "methods"))
        /\ fs["server.go"].exists /\ fs["server.go"] # OldFile

\* C12: a run that has ended has either returned 0 with its primary file
\* written (and, for Go, the companion file in place), or returned another
\* status without having written any file.
C12_AllOrNothing ==
    \A p \in Procs :
        run[p].at = "exit"
        => \/ /\ run[p].code = 0
              /\ run[p].output_path \in run[p].wrote
              /\ run[p].language = "go-gorilla"
                 => fs[MainFile(run[p].output_path)].exists
           \/ /\ run[p].code # 0
              /\ run[p].wrote = {}

\* --------------------------------------- converter: references and shapes

\* the reference the last call resolved: the argument of resolve_ref, or the
\* $ref of the schema given to convert_schema; "" when there is none
LastRef ==
    IF last.op = "resolve" THEN last.ref
    ELSE IF last.op = "convert" /\ "$ref" \in DOMAIN last.schema
    THEN last.schema["$ref"] ELSE ""

\* the component the last call resolved, "" when the reference is not local
\* or names no component
LastComponent ==
    IF StartsWith(LastRef, PREFIX_SCHEMAS) /\ LastSegment(LastRef) \in DOMAIN schemas
    THEN LastSegment(LastRef) ELSE ""

\* the position in type_definitions of the declaration of n, 0 for none
DeclIndex(n) ==
    IF DeclCount(n) = 0 THEN 0
    ELSE CHOOSE i \in 1..Len(type_definitions) : DeclName(lang, type_definitions[i]) = n

\* n and the components its properties reach
Closure(table, n) == {n} \cup ReachFrom(table, n)

\* every component n reaches is an object schema with properties, and none
\* is on a cycle
IsChain(table, n) ==
    \A m \in Closure(table, n) :
        /\ Get(table[m], "type", "") = "object"
        /\ Len(Get(table[m], "properties", <<>>)) > 0
        /\ ~OnCycle(table, m)

\* C13: after a reference to a component A at the head of an acyclic chain of
\* object components has been resolved, every component of the chain has
\* exactly one declaration, and the declaration of a component that another
\* one refers to comes before the declaration of the one that refers to it.
C13_ChainOrder ==
    (LastComponent # "" /\ IsChain(schemas, LastComponent))
    => /\ ~last.err
       /\ \A m \in Closure(schemas, LastComponent) :
             /\ DeclCount(m) = 1
             /\ \A k \in PropRefs(schemas, m) : DeclIndex(k) < DeclIndex(m)

\* Team -> Member -> Address has been resolved on a fresh converter: the
\* declarations are those of Address, Member and Team, in this order
C13_Witness ==
    /\ schemas = ChainSchemas
    /\ last.op = "resolve" /\ last.ref = PREFIX_SCHEMAS \o "Team" /\ ~last.err
    /\ last.gen0 = {}
    /\ Len(type_definitions) = 3
    /\ DeclIndex("Address") = 1 /\ DeclIndex("Member") = 2 /\ DeclIndex("Team") = 3

\* C14: after a reference to a component of components.schemas has been
\* resolved, the call has returned the component's name, the name is in
\* generated_types and type_definitions holds its declaration.
C14_ResolveRegisters ==
    (LastComponent # "" /\ ~last.err)
    => /\ last.t = LastComponent
       /\ LastComponent \in generated_types
       /\ DeclCount(LastComponent) = 1

\* ------------------------------------------------ enums: specification

\* the values an enum list is made of: two strings, a number and null
EnumValues ==
    {[kind |-> "str", text |-> "a"], [kind |-> "str", text |-> "b"],
     [kind |-> "num", text |-> "1"], [kind |-> "null", text |-> "None"]}

EnumLists == UNION {[1..n -> EnumValues] : n \in 0..MaxEnum}

\* the schemas that reach _convert_enum: a bare enum, and a string enum
EnumSchemas ==
    {("enum" :> vs) : vs \in EnumLists}
    \cup {("type" :> "string") @@ ("enum" :> vs) : vs \in EnumLists}

EnumInit ==
    /\ lang \in {"go", "ts"}
    /\ schemas = NoSchemas
    /\ generated_types = {}
    /\ type_definitions = <<>>
    /\ raised = FALSE
    /\ last = [op |-> "none"]
    /\ calls = 0
    /\ NameIdle
    /\ GenIdle
    /\ RegenIdle

\* converter.convert_schema(schema) on an enum schema
CallConvertEnum ==
    /\ CanCall
    /\ \E schema \in EnumSchemas :
         Called([op |-> "enum", schema |-> schema],
                ConvertSchema(lang, schema, "", schemas, generated_types,
                              type_definitions))

EnumNext == CallConvertEnum

SpecEnum == EnumInit /\ [][EnumNext]_vars

\* the literal of an enum value in a TypeScript union
Literal(v) == IF v.kind = "str" THEN "\"" \o v.text \o "\"" ELSE v.text

\* the kinds of the values of a list
KindsOf(values) == {values[i].kind : i \in 1..Len(values)}

\* the type asked for an enum list: string (Go) or the union of the string
\* literals (TypeScript) for strings, int64 or the union of the numeric
\* literals for numbers, the opaque type for an empty or mixed list
EnumExpected(l, values) ==
    IF KindsOf(values) = {"str"}
    THEN (IF l = "go" THEN "string"
          ELSE JoinWith([i \in 1..Len(values) |-> Literal(values[i])], " | "))
    ELSE IF KindsOf(values) = {"num"}
    THEN (IF l = "go" THEN "int64"
          ELSE JoinWith([i \in 1..Len(values) |-> Literal(values[i])], " | "))
    ELSE Opaque(l)

\* C15: the conversion of an enum schema returns the string type (or the
\* union of the string literals) for a list of strings, the numeric type (or
\* the union of the numeric literals) for a list of numbers, and the opaque
\* type for an empty list and for a list that mixes kinds.
C15_EnumConversion ==
    last.op = "enum"
    => ~last.err /\ last.t = EnumExpected(lang, last.schema["enum"])

\* ------------------------------------------------ converter: composites

\* the last call converted a schema that convert_schema treats by its key
\* (no $ref, no type)
LastComposite(key) ==
    /\ last.op = "convert"
    /\ key \in DOMAIN last.schema
    /\ "$ref" \notin DOMAIN last.schema
    /\ "type" \notin DOMAIN last.schema

\* some branch is a reference
HasRefBranch(branches) == \E i \in 1..Len(branches) : "$ref" \in DOMAIN branches[i]

\* the properties of the first k branches, a later branch's property taking
\* the place of an earlier one with the same key
RECURSIVE MergedProps(_, _)
MergedProps(branches, k) ==
    IF k = 0 THEN <<>>
    ELSE LET before == MergedProps(branches, k - 1)
             props == Get(branches[k], "properties", <<>>)
             names == {props[i].name : i \in 1..Len(props)}
         IN  [i \in 1..Len(before) |->
                 IF before[i].name \in names
                 THEN CHOOSE q \in {props[j] : j \in 1..Len(props)} : q.name = before[i].name
                 ELSE before[i]]
             \o SelectSeq(props, LAMBDA q : q.name \notin {before[i].name : i \in 1..Len(before)})

\* the one object schema the branches merge into
MergedObject(branches) ==
    ("type" :> "object")
    @@ ("properties" :> MergedProps(branches, Len(branches)))
    @@ ("required" :> UNION {Get(branches[i], "required", {}) : i \in 1..Len(branches)})

\* the last call has left what the outcome r is
SameAsLast(r) ==
    /\ last.err = r.err
    /\ last.t = r.t
    /\ generated_types = r.gen
    /\ type_definitions = r.defs

\* C16: converting an allOf without reference branches, under a hint or
\* without one, returns the type and leaves the registry that converting the
\* merged object schema under the same hint from the same registry does.
C16_AllOfMerge ==
    (LastComposite("allOf") /\ ~HasRefBranch(last.schema["allOf"]))
    => SameAsLast(ConvertSchema(lang, MergedObject(last.schema["allOf"]), last.hint,
                                schemas, last.gen0, last.defs0))

\* C17: converting an allOf that has a reference among its branches, at any
\* position, returns the opaque type, and a hint that was not registered
\* and names no component is not registered by the call.
C17_AllOfWithRef ==
    (LastComposite("allOf") /\ HasRefBranch(last.schema["allOf"]))
    => /\ ~last.err
       /\ last.t = Opaque(lang)
       /\ (last.hint \notin last.gen0 /\ last.hint \notin DOMAIN schemas)
          => last.hint \notin generated_types

\* the object components with properties that the branches refer to
BranchComponents(branches) ==
    {n \in DOMAIN schemas :
        /\ \E i \in 1..Len(branches) : branches[i] = Ref(n)
        /\ Get(schemas[n], "type", "") = "object"
        /\ Len(Get(schemas[n], "properties", <<>>)) > 0}

\* the branches of the oneOf or anyOf the last call converted
LastBranches ==
    IF "oneOf" \in DOMAIN last.schema THEN last.schema["oneOf"] ELSE last.schema["anyOf"]

\* the type of one branch, converted on its own
BranchType(branch) == ConvertSchema(lang, branch, "", schemas, {}, <<>>).t

\* C18: converting a oneOf or anyOf converts every branch: each object
\* component a branch refers to is registered after the call, and the
\* TypeScript result is the union of the types of the branches, in order.
C18_Union ==
    (LastComposite("oneOf") \/ LastComposite("anyOf"))
    => /\ ~last.err
       /\ BranchComponents(LastBranches) \subseteq generated_types
       /\ lang = "ts"
          => last.t = JoinWith([i \in 1..Len(LastBranches) |-> BranchType(LastBranches[i])],
                               " | ")

\* --------------------------------------------- converter: composite names

\* what a property is for the naming of nested types: "object" for an object
\* with properties, "items" for an array of such objects, "" otherwise
NestedKind(prop_schema) ==
    IF IsObjectWithProperties(prop_schema) THEN "object"
    ELSE IF /\ Get(prop_schema, "type", "") = "array"
            /\ IsObjectWithProperties(Get(prop_schema, "items", EmptyObj))
    THEN "items"
    ELSE ""

\* the nested schema that is to be declared for the property
NestedSchema(prop) ==
    IF NestedKind(prop.schema) = "items" THEN prop.schema["items"] ELSE prop.schema

\* an identifier without its final s
Singular(id) ==
    IF Len(id) > 1 /\ SubSeq(id, Len(id), Len(id)) = "s"
    THEN SubSeq(id, 1, Len(id) - 1) ELSE id

\* the composite name of the nested type of a property: the hint followed by
\* the property's identifier, made singular for an array
CompositeName(hint, prop) ==
    hint \o (IF NestedKind(prop.schema) = "items" THEN Singular(go_field_name(prop.name))
             ELSE go_field_name(prop.name))

\* the properties of an object schema that have a nested type
NestedProps(schema) ==
    {schema["properties"][i] : i \in {j \in 1..Len(schema["properties"]) :
                                        NestedKind(schema["properties"][j].schema) # ""}}

\* the identifier forms of the properties are pairwise distinct
DistinctIdentifiers(props) ==
    \A i, j \in 1..Len(props) :
        go_field_name(props[i].name) = go_field_name(props[j].name) => i = j

\* C19: after an object schema whose properties have pairwise distinct
\* identifiers has been converted under a hint on a fresh converter, every
\* nested object (or array of objects) among its properties is declared under
\* its composite name, with the declaration of its own schema, and the
\* composite names of different properties differ.
C19_CompositeNames ==
    (/\ last.op = "convert" /\ ~last.err
     /\ last.hint # "" /\ last.gen0 = {}
     /\ IsObjectWithProperties(last.schema)
     /\ DistinctIdentifiers(last.schema["properties"]))
    => \A q \in NestedProps(last.schema) :
          /\ CompositeName(last.hint, q) \in generated_types
          /\ DeclCount(CompositeName(last.hint, q)) = 1
          /\ \E i \in 1..Len(type_definitions) :
                type_definitions[i] =
                    DeclarationOf(NestedSchema(q), CompositeName(last.hint, q))
          /\ \A o \in NestedProps(last.schema) :
                CompositeName(last.hint, o) = CompositeName(last.hint, q) => o = q

\* ------------------------------------------------ naming: word splitting

RECURSIVE SplitAtCaseChange(_, _, _, _)
\* the words of a name when a new word starts at each upper-case letter that
\* directly follows a character that is not upper-case; prev is the character
\* before s, current the word being read
SplitAtCaseChange(s, words, current, prev) ==
    IF s = "" THEN (IF current # "" THEN Append(words, current) ELSE words)
    ELSE IF Head(s) \in UpperSet /\ prev # "" /\ prev \notin UpperSet
         THEN SplitAtCaseChange(Tail(s), Append(words, current), Head(s), Head(s))
         ELSE SplitAtCaseChange(Tail(s), words, current \o Head(s), Head(s))

\* C20: for a name without underscore, the words go_field_name works on are
\* those that start at each upper-case letter directly following a character
\* that is not upper-case (a run of upper-case letters stays one word), and
\* the identifier returned is the rendering of these words.
C20_WordSplit ==
    (name_in.text # "" /\ ~HasChar(name_in.text, "_") /\ Len(name_out) > 0)
    => /\ _split_camel(name_in.text) = SplitAtCaseChange(name_in.text, <<>>, "", "")
       /\ \A i \in 1..Len(name_out) :
             name_out[i] = GoWords(SplitAtCaseChange(name_in.text, <<>>, "", ""))

\* ------------------------------------- regeneration: interleaved runs

\* generate(), lines 36-60, in a process that is not inside generate(),
\* whatever the other processes are doing
RaceGenerate(p, doc, output_path) ==
    /\ run[p].at \in {"idle", "done", "failed"}
    /\ runs < MaxRuns
    /\ runs' = runs + 1
    /\ run' = [run EXCEPT ![p] = Started(runs + 1, doc, output_path, GoContext(doc))]
    /\ UNCHANGED <<fs, convVars, nameVars, genVars>>

RaceNext ==
    \E p \in Procs :
        \/ \E doc \in Docs, output_path \in OutputPaths : RaceGenerate(p, doc, output_path)
        \/ RunWriteTypes(p)
        \/ RunCheckMain(p)
        \/ RunWriteMain(p)

SpecRace == RegenInit /\ [][RaceNext]_vars

\* no two processes have both written the companion file of one output path
OneCompanionWriter ==
    \A p, q \in Procs :
        (/\ run[p].at = "done" /\ run[p].wrote_main
         /\ run[q].at = "done" /\ run[q].wrote_main
         /\ run[p].output_path = run[q].output_path)
        => p = q

\* a step leaves the content of a companion file that exists as it is
CompanionKept ==
    \A o \in OutputPaths :
        fs[MainFile(o)] # Absent => fs'[MainFile(o)] = fs[MainFile(o)]

C22_RequestTypesUnique ==
    (lang = "go" /\ pc \in {"methods", "errors", "services"})
    => \A i, j \in 1..Len(processed) :
          processed[i]["name"] # processed[j]["name"]
          => /\ processed[i]["args_type"] # processed[j]["args_type"]
             /\ processed[i]["reply_type"] # processed[j]["reply_type"]
             /\ ResultTypeName(processed[i]) # ResultTypeName(processed[j])

\* every processed method is in exactly one service, that of its namespace;
\* no service is empty; each service lists its methods in processed order
ServicesPartition ==
    /\ \A k \in 1..Len(processed) :
          \E i \in 1..Len(services) :
             /\ services[i].namespace = processed[k]["namespace"]
             /\ \E a \in 1..Len(services[i].methods) :
                   services[i].methods[a] = processed[k]
             /\ \A j \in 1..Len(services) :
                   (\E b \in 1..Len(services[j].methods) :
                       services[j].methods[b] = processed[k]) => j = i
    /\ \A i \in 1..Len(services) :
          /\ Len(services[i].methods) > 0
          /\ services[i].methods
               = SelectSeq(processed,
                           LAMBDA method : method["namespace"] = services[i].namespace)

\* no two services of the list have the same service name
ServiceNamesDistinct ==
    \A i, j \in 1..Len(services) : services[i].name = services[j].name => i = j

\* C23: the Go service list partitions the processed methods: each method is
\* in exactly one service, the one of its namespace; every service has at
\* least one method, in the order the methods were processed; and no two
\* services have the same service name.
C23_ServicePartition ==
    pc = "services" => ServicesPartition /\ ServiceNamesDistinct

\* ------------------------------------------- converter: degraded results

ErrorTypeName(entry) == IF lang = "go" THEN entry.struct_name ELSE entry.class_name

\* C25: the entries of the error catalog have pairwise distinct derived type
\* names (struct_name in Go, class_name in TypeScript).
C25_ErrorNamesUnique ==
    pc \in {"errors", "services"}
    => \A i, j \in 1..Len(error_types) :
          ErrorTypeName(error_types[i]) = ErrorTypeName(error_types[j]) => i = j

====
